---- MODULE Spec2Model ----
(***************************************************************************)
(* A model of the configuration-driven CRD collector of                    *)
(* sealos-state-metrics (package dynamic): the resource cache guarded by a *)
(* read-write lock, the Add / Update / Delete event handlers, the two-pass  *)
(* collect, the six metric type strategies and the path extractors.        *)
(*                                                                         *)
(* Strings are sequences of one-character strings, so that strings.Split,  *)
(* strings.EqualFold, strconv.ParseFloat and the key namespace + "/" +     *)
(* name are computed and not assumed.  A float64 is modelled by an integer *)
(* (the objects drawn hold whole numbers only).  An attribute tree holds   *)
(* the JSON-compatible values an unstructured.Unstructured may hold: nil,  *)
(* bool, number, string, map and slice, as tagged records.                 *)
(***************************************************************************)
EXTENDS Integers, Sequences, FiniteSets, Bags, TLC

VARIABLES
    resources,    \* c.resources: key -> index of the cached object
    descriptors,  \* c.descriptors: metric name -> label names of the Desc
    wq,           \* the critical sections the running event handler still has to run
    wlocked,      \* TRUE while the event handler holds c.mu.Lock()
    wop,          \* the event being handled and the cache it was called on (history)
    lastEv,       \* history: key -> the most recent event delivered for it
    rpc,          \* position of the scrape inside collect
    visited,      \* keys the first pass of the running collect has ranged over
    ci,           \* index of the next count metric definition of the second pass
    out,          \* the bag of metrics sent on ch by the running / last collect
    seen1,        \* history: key -> object the first pass saw under that key
    snap,         \* history: c.resources when the running collect took the read lock
    xin,          \* extractor harness: the (object, path) drawn
    xout,         \* extractor harness: what the four extractors returned
    mapSeed,      \* the order in which the next range over a Go map visits its keys
    bin,          \* construction: the CRDConfig and metric prefix drawn
    bout,         \* construction: what each construction so far returned
    now,          \* aggregators: the clock read by time.Now()
    nextTick,     \* aggregators: the time of the next tick of the cleanup ticker
    calls,        \* aggregators: the number of calls made so far
    lastCall,     \* aggregators: the last call made and its argument (history)
    podAggregated,  \* PodAggregator.aggregated: key -> bucket
    abnormalPods,   \* PodAggregator.abnormalPods: namespace/pod -> first seen
    maxEvents,      \* EventAggregator.maxEvents
    evAggregated,   \* EventAggregator.aggregated: key -> bucket
    stopCh,         \* aggregators: the stop channel, "open" or "closed"
    loop,           \* aggregators: the position of the cleanupLoop goroutine
    informer,       \* Controller.informer and the state of that informer
    informerStopCh, \* Controller.informerStopCh: "nil", "open" or "closed"
    ctx,            \* the context of the running Start: "live" or "done"
    cpc,            \* position of the caller inside Controller.Start
    startResult,    \* what the last Start returned (history)
    starts,         \* the number of Start calls so far
    faulted,        \* TRUE once a close of a closed channel has panicked
    hs,             \* handlers running on two goroutines: goroutine -> state
    cluster,        \* the objects of the watched resource in the API server: key -> object
    pending,        \* the notifications the informer has still to deliver, in order
    domains,        \* domain Collector.domains: key -> *DomainHealth
    inflight,       \* the check goroutines of the running Poll that have not stored yet
    ppc,            \* position of the running Poll
    gone,           \* history: the ingresses deleted and not added or updated since
    refs,           \* aggregated as a map of pointers: key -> address of the bucket
    heap,           \* the bucket structs: address -> AggregatedPod / AggregatedEvent
    held,           \* the map a GetAggregated call returned, and what it held then
    writes          \* the field writes the running call has still to make

vars == <<resources, descriptors, wq, wlocked, wop, lastEv, rpc, visited, ci, out,
          seen1, snap, xin, xout, mapSeed, bin, bout,
          now, nextTick, calls, lastCall, podAggregated, abnormalPods,
          maxEvents, evAggregated, stopCh, loop,
          informer, informerStopCh, ctx, cpc, startResult, starts, faulted, hs,
          cluster, pending, domains, inflight, ppc, gone, refs, heap, held, writes>>

collectorVars == <<resources, descriptors, wq, wlocked, wop, lastEv, rpc, visited,
                   ci, out, seen1, snap>>

extractVars == <<xin, xout>>

buildVars == <<mapSeed, bin, bout>>

clockVars == <<now, nextTick, calls, lastCall>>

podVars == <<podAggregated, abnormalPods>>

eventVars == <<maxEvents, evAggregated>>

stopVars == <<stopCh, loop>>

\* The variables of the aggregators.
aggVars == <<clockVars, podVars, eventVars, stopVars>>

\* The variables of the components other than the collector.
ctlVars == <<informer, informerStopCh, ctx, cpc, startResult, starts, faulted>>

pairVars == <<hs>>

\* The informer's view of the API server.
worldVars == <<cluster, pending>>

\* The variables of the domain collector.
domainVars == <<domains, inflight, ppc, gone>>

\* The variables of the aggregator seen as a map of pointers.
snapVars == <<refs, heap, held, writes>>

otherVars == <<worldVars, domainVars, snapVars>>

restVars == <<extractVars, buildVars, aggVars, ctlVars, pairVars, otherVars>>

-----------------------------------------------------------------------------
(* Strings *)

Upper == <<"A","B","C","D","E","F","G","H","I","J","K","L","M",
           "N","O","P","Q","R","S","T","U","V","W","X","Y","Z">>

Lower == <<"a","b","c","d","e","f","g","h","i","j","k","l","m",
           "n","o","p","q","r","s","t","u","v","w","x","y","z">>

Digits == <<"0","1","2","3","4","5","6","7","8","9">>

\* The characters used, in byte order (the order sort.Strings compares by).
ByteOrder == <<"-", ".", "/">> \o Digits \o Upper \o <<"_">> \o Lower

Rank(c) == CHOOSE i \in 1..Len(ByteOrder) : ByteOrder[i] = c

ToLowerRune(c) ==
    IF \E i \in 1..Len(Upper) : Upper[i] = c
    THEN Lower[CHOOSE i \in 1..Len(Upper) : Upper[i] = c]
    ELSE c

\* Mutant: the comparison is case sensitive.
EqualFold_CaseSensitive(s, t) == s = t

\* strings.EqualFold on the characters used (ASCII case folding).
EqualFold(s, t) ==
    /\ Len(s) = Len(t)
    /\ \A i \in 1..Len(s) : ToLowerRune(s[i]) = ToLowerRune(t[i])

\* Mutant: the path is taken as one field name.
Split_Whole(s) == <<s>>

\* strings.Split(s, "."): the pieces between the dots, one more than the dots.
RECURSIVE SplitFrom(_, _)
SplitFrom(s, cur) ==
    IF s = <<>> THEN <<cur>>
    ELSE IF Head(s) = "." THEN <<cur>> \o SplitFrom(Tail(s), <<>>)
    ELSE SplitFrom(Tail(s), Append(cur, Head(s)))

Split(s) == SplitFrom(s, <<>>)

IsDigit(c) == \E i \in 1..Len(Digits) : Digits[i] = c

DigitVal(c) == (CHOOSE i \in 1..Len(Digits) : Digits[i] = c) - 1

RECURSIVE DecimalValue(_, _)
DecimalValue(s, acc) ==
    IF s = <<>> THEN acc ELSE DecimalValue(Tail(s), 10 * acc + DigitVal(Head(s)))

\* strconv.ParseFloat(v, 64) with the error dropped, on the strings drawn: an
\* optionally signed run of digits parses to its value, anything else is a
\* syntax error and gives 0.
ParseFloat(s) ==
    LET signed == s # <<>> /\ Head(s) \in {"-", "+"}
        body   == IF signed THEN Tail(s) ELSE s
    IN  IF body # <<>> /\ \A i \in 1..Len(body) : IsDigit(body[i])
        THEN IF signed /\ Head(s) = "-" THEN 0 - DecimalValue(body, 0)
             ELSE DecimalValue(body, 0)
        ELSE 0

-----------------------------------------------------------------------------
(* Attribute trees *)

Nil  == [t |-> "nil"]
S(s) == [t |-> "string", s |-> s]
N(n) == [t |-> "number", n |-> n]
B(b) == [t |-> "bool", b |-> b]
M(m) == [t |-> "map", m |-> m]
L(l) == [t |-> "slice", l |-> l]

EmptyMap == M(<<>>)

\* unstructured.NestedFieldNoCopy: successive map lookups.  A nil value met on
\* the way is "not found" without error; any other non-map is an error.
RECURSIVE NestedFieldNoCopy(_, _)
NestedFieldNoCopy(val, fields) ==
    IF fields = <<>> THEN [val |-> val, found |-> TRUE, err |-> FALSE]
    ELSE IF val.t = "nil" THEN [val |-> Nil, found |-> FALSE, err |-> FALSE]
    ELSE IF val.t = "map"
         THEN IF Head(fields) \in DOMAIN val.m
              THEN NestedFieldNoCopy(val.m[Head(fields)], Tail(fields))
              ELSE [val |-> Nil, found |-> FALSE, err |-> FALSE]
         ELSE [val |-> Nil, found |-> FALSE, err |-> TRUE]

\* unstructured.NestedString: the value when it is a string.
NestedString(obj, fields) ==
    LET r == NestedFieldNoCopy(obj, fields)
    IN  IF ~r.found \/ r.err THEN [val |-> <<>>, found |-> r.found, err |-> r.err]
        ELSE IF r.val.t = "string" THEN [val |-> r.val.s, found |-> TRUE, err |-> FALSE]
        ELSE [val |-> <<>>, found |-> FALSE, err |-> TRUE]

\* runtime.DeepCopyJSONValue: rebuilds maps and slices, returns scalars.
RECURSIVE DeepCopyJSONValue(_)
DeepCopyJSONValue(v) ==
    IF v.t = "map" THEN M([k \in DOMAIN v.m |-> DeepCopyJSONValue(v.m[k])])
    ELSE IF v.t = "slice" THEN L([i \in 1..Len(v.l) |-> DeepCopyJSONValue(v.l[i])])
    ELSE v

\* unstructured.NestedMap: a deep copy of the value when it is a map.
NestedMap(obj, fields) ==
    LET r == NestedFieldNoCopy(obj, fields)
    IN  IF ~r.found \/ r.err THEN [val |-> Nil, found |-> r.found, err |-> r.err]
        ELSE IF r.val.t = "map"
             THEN [val |-> DeepCopyJSONValue(r.val), found |-> TRUE, err |-> FALSE]
        ELSE [val |-> Nil, found |-> FALSE, err |-> TRUE]

\* unstructured.NestedSlice: a deep copy of the value when it is a slice.
NestedSlice(obj, fields) ==
    LET r == NestedFieldNoCopy(obj, fields)
    IN  IF ~r.found \/ r.err THEN [val |-> Nil, found |-> r.found, err |-> r.err]
        ELSE IF r.val.t = "slice"
             THEN [val |-> DeepCopyJSONValue(r.val), found |-> TRUE, err |-> FALSE]
        ELSE [val |-> Nil, found |-> FALSE, err |-> TRUE]

-----------------------------------------------------------------------------
(* helpers.go.  An extractor returns a value; Panic stands for the call not *)
(* returning (a run-time panic unwinding the caller).                       *)

Panic == [t |-> "panic"]

toFloat64(value) ==
    IF value.t = "number" THEN value.n
    ELSE IF value.t = "bool" THEN (IF value.b THEN 1 ELSE 0)
    ELSE IF value.t = "string" THEN ParseFloat(value.s)
    ELSE 0

\* Mutant: the error of NestedString is not dropped but raised.
extractFieldString_PanicOnError(obj, path) ==
    IF path = <<>> THEN S(<<>>)
    ELSE IF NestedString(obj, Split(path)).err THEN Panic
    ELSE S(NestedString(obj, Split(path)).val)

extractFieldString(obj, path) ==
    IF path = <<>> THEN S(<<>>)
    ELSE S(NestedString(obj, Split(path)).val)

extractFieldFloat(obj, path) ==
    IF path = <<>> THEN N(0)
    ELSE LET r == NestedFieldNoCopy(obj, Split(path))
         IN  IF r.err \/ ~r.found THEN N(0) ELSE N(toFloat64(r.val))

extractFieldMap(obj, path) ==
    IF path = <<>> THEN Nil
    ELSE LET r == NestedMap(obj, Split(path))
         IN  IF r.err \/ ~r.found THEN Nil ELSE r.val

extractFieldSlice(obj, path) ==
    IF path = <<>> THEN Nil
    ELSE LET r == NestedSlice(obj, Split(path))
         IN  IF r.err \/ ~r.found THEN Nil ELSE r.val

\* The "<" of Go strings: byte-wise lexicographic order.
RECURSIVE StrLess(_, _)
StrLess(a, b) ==
    IF b = <<>> THEN FALSE
    ELSE IF a = <<>> THEN TRUE
    ELSE IF Head(a) = Head(b) THEN StrLess(Tail(a), Tail(b))
    ELSE Rank(Head(a)) < Rank(Head(b))

RECURSIVE SortStrings(_)
SortStrings(set) ==
    IF set = {} THEN <<>>
    ELSE LET least == CHOOSE a \in set : \A b \in set : a = b \/ StrLess(a, b)
         IN  <<least>> \o SortStrings(set \ {least})

\* for k := range m: Go visits the keys of a map in an order that may differ
\* from one range to the next; mapSeed picks the order of this one.
MapRange(m) ==
    LET s == SortStrings(DOMAIN m)
        n == Len(s)
    IN  [i \in 1..n |-> s[((i - 1 + mapSeed) % n) + 1]]

\* Mutant: the keys are returned in the order the map was ranged over.
getSortedKeys_Unsorted(m) == MapRange(m)

\* getSortedKeys: the keys of a map[string]string, appended in map order and
\* then sorted by sort.Strings.
getSortedKeys(m) ==
    LET keys == MapRange(m) IN SortStrings({keys[i] : i \in 1..Len(keys)})

\* Mutant: the values are taken in the order the map is ranged over.
getSortedValues_MapOrder(m) ==
    LET keys == MapRange(m) IN [i \in 1..Len(keys) |-> m[keys[i]]]

\* getSortedValues: the values of the map in sorted key order.
getSortedValues(m) ==
    LET keys == getSortedKeys(m) IN [i \in 1..Len(keys) |-> m[keys[i]]]

-----------------------------------------------------------------------------
(* Field names and paths used by the code, the configuration and the objects *)

f_metadata   == <<"m","e","t","a","d","a","t","a">>
f_name       == <<"n","a","m","e">>
f_namespace  == <<"n","a","m","e","s","p","a","c","e">>
f_status     == <<"s","t","a","t","u","s">>
f_spec       == <<"s","p","e","c">>
f_phase      == <<"p","h","a","s","e">>
f_replicas   == <<"r","e","p","l","i","c","a","s">>
f_components == <<"c","o","m","p","o","n","e","n","t","s">>
f_conditions == <<"c","o","n","d","i","t","i","o","n","s">>
f_ready      == <<"r","e","a","d","y">>
f_type       == <<"t","y","p","e">>
f_reason     == <<"r","e","a","s","o","n">>
f_state      == <<"s","t","a","t","e">>
f_value      == <<"v","a","l","u","e">>
f_component  == <<"c","o","m","p","o","n","e","n","t">>
s_true       == <<"t","r","u","e">>

Dot(a, b) == a \o <<".">> \o b

t_info       == <<"i","n","f","o">>
t_count      == <<"c","o","u","n","t">>
t_gauge      == <<"g","a","u","g","e">>
t_map_state  == <<"m","a","p","_","s","t","a","t","e">>
t_map_gauge  == <<"m","a","p","_","g","a","u","g","e">>
t_conditions == f_conditions
t_histogram  == <<"h","i","s","t","o","g","r","a","m">>

NoCondition == [set |-> FALSE, TypeField |-> <<>>, StatusField |-> <<>>,
                ReasonField |-> <<>>]

MetricConfig(type, name, path, valuePath, keyLabel, valueLabel, labels) ==
    [Type |-> type, Name |-> name, Path |-> path, ValuePath |-> valuePath,
     KeyLabel |-> keyLabel, ValueLabel |-> valueLabel, Labels |-> labels,
     Condition |-> NoCondition]

\* The CRDConfig the collector is built from: one metric of each of the six
\* types, a second count metric with the default value label, and a metric of
\* an unknown type.
crdConfig ==
    [Name |-> <<"c","r","d">>,
     CommonLabels |-> (f_name :> Dot(f_metadata, f_name))
                      @@ (f_namespace :> Dot(f_metadata, f_namespace)),
     Metrics |-> <<
        MetricConfig(t_info, f_phase, <<>>, <<>>, <<>>, <<>>,
                     (f_phase :> Dot(f_status, f_phase))),
        MetricConfig(t_gauge, f_replicas, Dot(f_spec, f_replicas), <<>>, <<>>, <<>>, <<>>),
        MetricConfig(t_count, <<"p","c">>, Dot(f_status, f_phase), <<>>, <<>>,
                     f_phase, <<>>),
        MetricConfig(t_map_state, <<"c","p">>, Dot(f_status, f_components), f_phase,
                     f_component, <<>>, <<>>),
        MetricConfig(t_map_gauge, <<"c","r">>, Dot(f_status, f_components), f_ready,
                     f_component, <<>>, <<>>),
        MetricConfig(t_conditions, <<"c","d">>, Dot(f_status, f_conditions), <<>>,
                     <<>>, <<>>, <<>>),
        MetricConfig(t_histogram, <<"h">>, Dot(f_spec, f_replicas), <<>>, <<>>, <<>>, <<>>),
        MetricConfig(t_count, <<"r","c">>, Dot(f_spec, f_replicas), <<>>, <<>>, <<>>, <<>>)
     >>]

-----------------------------------------------------------------------------
(* The objects the informer may deliver.  resources holds pointers; here a  *)
(* pointer is the index of the object in Catalog.                           *)

Meta(ns, name) == M((f_namespace :> S(ns)) @@ (f_name :> S(name)))

Cond(type, status, reason) ==
    M((f_type :> type) @@ (<<"s","t","a","t","u","s">> :> status) @@ (f_reason :> reason))

Catalog == <<
    \* 1: d/a, well formed, with entries and conditions of every shape
    M((f_metadata :> Meta(<<"d">>, <<"a">>))
      @@ (f_spec :> M((f_replicas :> N(3))))
      @@ (f_status :> M(
            (f_phase :> S(<<"R">>))
            @@ (f_components :> M(
                  (<<"x">> :> M((f_phase :> S(<<"R">>)) @@ (f_ready :> N(2))))
                  @@ (<<"y">> :> M((f_phase :> S(<<>>)) @@ (f_ready :> S(<<"3">>))))
                  @@ (<<"z">> :> S(<<"b","a","d">>))))
            @@ (f_conditions :> L(<<
                  Cond(S(<<"R","d","y">>), S(<<"T","r","u","e">>), S(<<"o","k">>)),
                  M((f_type :> S(<<"S","y","n">>)) @@ (f_status :> S(<<"F","a","l","s","e">>))),
                  M((f_status :> S(<<"T","r","u","e">>))),
                  S(<<"b","a","d">>) >>))))),
    \* 2: d/a again, other contents
    M((f_metadata :> Meta(<<"d">>, <<"a">>))
      @@ (f_spec :> M((f_replicas :> S(<<"5">>))))
      @@ (f_status :> M(
            (f_phase :> S(<<"P">>))
            @@ (f_components :> M((<<"x">> :> M((f_phase :> S(<<"P">>))))))
            @@ (f_conditions :> L(<<
                  Cond(S(<<"R","d","y">>), S(<<"T","R","U","E">>), S(<<>>)),
                  Cond(S(<<"R","d","y">>), S(<<"T","R","U","E">>), S(<<>>)) >>))))),
    \* 3: d/b, an empty map of components, odd conditions, a bool gauge
    M((f_metadata :> Meta(<<"d">>, <<"b">>))
      @@ (f_spec :> M((f_replicas :> B(TRUE))))
      @@ (f_status :> M(
            (f_phase :> S(<<"R">>))
            @@ (f_components :> EmptyMap)
            @@ (f_conditions :> L(<<
                  Cond(S(<<"R","d","y">>), S(<<"t","R","u","E">>), Nil),
                  Cond(S(<<>>), S(<<"T","r","u","e">>), S(<<"o","k">>)),
                  Cond(S(<<"S","y","n">>), B(TRUE), S(<<"o","k">>)),
                  Cond(S(<<"U","p">>), S(<<>>), S(<<"n","o">>)) >>))))),
    \* 4: d/b again: status is a string, spec is null
    M((f_metadata :> Meta(<<"d">>, <<"b">>))
      @@ (f_spec :> Nil)
      @@ (f_status :> S(<<"b","a","d">>))),
    \* 5: no metadata at all (the key is "/")
    M((f_spec :> M((f_replicas :> S(<<"a","b","c">>))))
      @@ (f_status :> M(
            (f_phase :> N(7))
            @@ (f_components :> S(<<"b","a","d">>))
            @@ (f_conditions :> EmptyMap)))),
    \* 6: metadata is not a map (the key is "/"), an empty phase
    M((f_metadata :> S(<<"b","a","d">>))
      @@ (f_status :> M(
            (f_phase :> S(<<>>))
            @@ (f_components :> M(
                  (<<"x">> :> M((f_phase :> N(5))))
                  @@ (<<"y">> :> M((f_ready :> B(TRUE))))
                  @@ (<<"w">> :> Nil)))
            @@ (f_conditions :> L(<<
                  M((f_type :> S(<<"R","d","y">>))),
                  Cond(N(5), S(<<"T","r","u","e">>), S(<<>>)),
                  Nil >>))))),
    \* 7: d/b once more, well formed, a negative gauge given as a string
    M((f_metadata :> Meta(<<"d">>, <<"b">>))
      @@ (f_spec :> M((f_replicas :> S(<<"-","4">>))))
      @@ (f_status :> M(
            (f_phase :> S(<<"P">>))
            @@ (f_components :> M((<<"x">> :> M((f_phase :> S(<<"R">>)) @@ (f_ready :> N(1))))))
            @@ (f_conditions :> L(<<>>)))))
>>

\* The objects drawn are the first MaxObj of the catalog.
MaxObj == 6

ObjIds == 1..MaxObj

Obj(i) == Catalog[i]

-----------------------------------------------------------------------------
(* configurable.go: descriptors *)

\* The rune mapping of sanitizeName: letters, digits and "_" are kept, any other
\* rune becomes "_".
SanitizeRune(r) ==
    IF \/ \E i \in 1..Len(Lower) : Lower[i] = r
       \/ \E i \in 1..Len(Upper) : Upper[i] = r
       \/ IsDigit(r)
       \/ r = "_"
    THEN r ELSE "_"

\* strings.ToLower on the characters used.
ToLower(s) == [i \in 1..Len(s) |-> ToLowerRune(s[i])]

\* sanitizeName: strings.Map with the rune mapping, then strings.ToLower.
sanitizeName(name) == ToLower([i \in 1..Len(name) |-> SanitizeRune(name[i])])

\* prometheus.BuildFQName(namespace, subsystem, name): the non-empty parts
\* joined by "_"; the empty string when name is empty.
BuildFQName(namespace, subsystem, name) ==
    IF name = <<>> THEN <<>>
    ELSE IF namespace # <<>> /\ subsystem # <<>>
         THEN namespace \o <<"_">> \o subsystem \o <<"_">> \o name
    ELSE IF namespace # <<>> THEN namespace \o <<"_">> \o name
    ELSE IF subsystem # <<>> THEN subsystem \o <<"_">> \o name
    ELSE name

\* The prefix initMetrics builds: "prefix_crdname", or "crdname" when the
\* metric prefix is empty.
MetricNamePrefix(config, prefix) ==
    IF prefix # <<>> THEN prefix \o <<"_">> \o sanitizeName(config.Name)
    ELSE sanitizeName(config.Name)

\* initMetrics: the label names of the descriptor of every metric of a known
\* type, stored under the metric's Name; a metric of an unknown type gets none.
LabelNamesFor(cfg, commonLabelNames) ==
    IF cfg.Type = t_info THEN commonLabelNames \o getSortedKeys(cfg.Labels)
    ELSE IF cfg.Type = t_count
         THEN <<IF cfg.ValueLabel = <<>> THEN f_value ELSE cfg.ValueLabel>>
    ELSE IF cfg.Type = t_gauge THEN commonLabelNames
    ELSE IF cfg.Type = t_map_state THEN commonLabelNames \o <<cfg.KeyLabel, f_state>>
    ELSE IF cfg.Type = t_map_gauge THEN commonLabelNames \o <<cfg.KeyLabel>>
    ELSE commonLabelNames \o <<f_type, f_status, f_reason>>

KnownTypes == {t_info, t_count, t_gauge, t_map_state, t_map_gauge, t_conditions}

getCommonLabelNames(config) == getSortedKeys(config.CommonLabels)

\* The descriptor of one metric definition: the key it is stored under, the
\* fully qualified metric name and the label names.
NewDesc(config, prefix, cfg) ==
    [name       |-> cfg.Name,
     fqName     |-> BuildFQName(MetricNamePrefix(config, prefix), <<>>, cfg.Name),
     labelNames |-> LabelNamesFor(cfg, getCommonLabelNames(config))]

RECURSIVE initMetricsFrom(_, _, _, _)
initMetricsFrom(config, prefix, i, descs) ==
    IF i > Len(config.Metrics) THEN descs
    ELSE LET cfg == config.Metrics[i]
         IN  IF cfg.Type \in KnownTypes
             THEN initMetricsFrom(config, prefix, i + 1,
                    [n \in DOMAIN descs \cup {cfg.Name} |->
                        IF n = cfg.Name THEN NewDesc(config, prefix, cfg)
                        ELSE descs[n]])
             ELSE initMetricsFrom(config, prefix, i + 1, descs)

initMetrics(config, prefix) == initMetricsFrom(config, prefix, 1, <<>>)

\* The metric prefix the collector of the cache model is built with.
metricPrefix == <<"t","e","s","t">>

\* NewConfigurableCollector: the descriptors of initMetrics and an empty cache.
\* The function has no error result: err is what its caller can observe.
NewConfigurableCollector(config, prefix) ==
    [err |-> FALSE, descriptors |-> initMetrics(config, prefix), resources |-> <<>>]

\* Mutant: descriptors are reported only once a resource is cached.
GetMetricDescriptors_OnlyWithResources ==
    IF resources = <<>> THEN {} ELSE {descriptors[n] : n \in DOMAIN descriptors}

\* GetMetricDescriptors: the descriptors of the collector, as a set (the
\* slice is in map order).
GetMetricDescriptors == {descriptors[n] : n \in DOMAIN descriptors}

-----------------------------------------------------------------------------
(* configurable.go: the metric type strategies.  A strategy gives the bag of *)
(* metrics it sends on ch, and whether it panicked.  src is history: the key *)
(* of the object a per-resource metric was made from.                        *)

NoMetrics == [panic |-> FALSE, ms |-> EmptyBag]

Panicked == [panic |-> TRUE, ms |-> EmptyBag]

\* prometheus.MustNewConstMetric: panics unless there is one label value per
\* label name of the descriptor.
MustNewConstMetric(desc, value, labels, src) ==
    IF Len(labels) # Len(desc.labelNames) THEN Panicked
    ELSE [panic |-> FALSE,
          ms |-> SetToBag({[desc |-> desc.name, labels |-> labels,
                            value |-> value, src |-> src]})]

RECURSIVE SumBags(_, _)
SumBags(f, D) ==
    IF D = {} THEN EmptyBag
    ELSE LET k == CHOOSE k \in D : TRUE IN f[k].ms (+) SumBags(f, D \ {k})

\* The outcome of a loop whose iterations have the outcomes f[k].
Gather(f) ==
    [panic |-> \E k \in DOMAIN f : f[k].panic, ms |-> SumBags(f, DOMAIN f)]

\* extractCommonLabels: the common label values, in sorted label-name order.
extractCommonLabels(obj) ==
    LET paths == getSortedValues(crdConfig.CommonLabels)
        vals  == [i \in 1..Len(paths) |-> extractFieldString(obj, paths[i])]
    IN  IF \E i \in 1..Len(paths) : vals[i].t = "panic" THEN Panic
        ELSE L([i \in 1..Len(paths) |-> vals[i].s])

collectInfoMetric(desc, obj, cfg, commonLabels, src) ==
    LET paths == getSortedValues(cfg.Labels)
        vals  == [i \in 1..Len(paths) |-> extractFieldString(obj, paths[i])]
    IN  IF \E i \in 1..Len(paths) : vals[i].t = "panic" THEN Panicked
        ELSE MustNewConstMetric(desc, 1,
                commonLabels \o [i \in 1..Len(paths) |-> vals[i].s], src)

\* Mutant: no metric for an object without the field.
collectGaugeMetric_SkipAbsent(desc, obj, cfg, commonLabels, src) ==
    LET r == NestedFieldNoCopy(obj, Split(cfg.Path))
    IN  IF r.err \/ ~r.found THEN NoMetrics
        ELSE MustNewConstMetric(desc, toFloat64(r.val), commonLabels, src)

collectGaugeMetric(desc, obj, cfg, commonLabels, src) ==
    LET value == extractFieldFloat(obj, cfg.Path)
    IN  IF value.t = "panic" THEN Panicked
        ELSE MustNewConstMetric(desc, value.n, commonLabels, src)

\* The string under key in a map[string]any, "" when absent or not a string
\* (the two-valued type assertion entryMap[key].(string)).
StringAt(m, key) ==
    IF key \in DOMAIN m /\ m[key].t = "string" THEN m[key].s ELSE <<>>

\* Mutant: an entry without a state is sent with an empty state.
MapStateEntry_EmitEmpty(desc, key, entryData, cfg, commonLabels, src) ==
    IF entryData.t # "map" THEN NoMetrics
    ELSE MustNewConstMetric(desc, 1,
            commonLabels \o <<key, StringAt(entryData.m, cfg.ValuePath)>>, src)

MapStateEntry(desc, key, entryData, cfg, commonLabels, src) ==
    IF entryData.t # "map" THEN NoMetrics
    ELSE LET currentState == StringAt(entryData.m, cfg.ValuePath)
         IN  IF currentState = <<>> THEN NoMetrics
             ELSE MustNewConstMetric(desc, 1, commonLabels \o <<key, currentState>>, src)

collectMapStateMetric(desc, obj, cfg, commonLabels, src) ==
    LET mapData == extractFieldMap(obj, cfg.Path)
    IN  IF mapData.t = "panic" THEN Panicked
        ELSE IF mapData.t = "nil" THEN NoMetrics
        ELSE Gather([key \in DOMAIN mapData.m |->
                MapStateEntry(desc, key, mapData.m[key], cfg, commonLabels, src)])

\* Mutant: an entry without the value is skipped.
MapGaugeEntry_SkipAbsent(desc, key, entryData, cfg, commonLabels, src) ==
    IF entryData.t # "map" THEN NoMetrics
    ELSE IF cfg.ValuePath \notin DOMAIN entryData.m THEN NoMetrics
    ELSE MustNewConstMetric(desc, toFloat64(entryData.m[cfg.ValuePath]),
                            commonLabels \o <<key>>, src)

MapGaugeEntry(desc, key, entryData, cfg, commonLabels, src) ==
    IF entryData.t # "map" THEN NoMetrics
    ELSE LET value == IF cfg.ValuePath \in DOMAIN entryData.m
                      THEN toFloat64(entryData.m[cfg.ValuePath])
                      ELSE 0
         IN  MustNewConstMetric(desc, value, commonLabels \o <<key>>, src)

collectMapGaugeMetric(desc, obj, cfg, commonLabels, src) ==
    LET mapData == extractFieldMap(obj, cfg.Path)
    IN  IF mapData.t = "panic" THEN Panicked
        ELSE IF mapData.t = "nil" THEN NoMetrics
        ELSE Gather([key \in DOMAIN mapData.m |->
                MapGaugeEntry(desc, key, mapData.m[key], cfg, commonLabels, src)])

ConditionEntry(desc, condData, typeField, statusField, reasonField, commonLabels, src) ==
    IF condData.t # "map" THEN NoMetrics
    ELSE LET condType   == StringAt(condData.m, typeField)
             condStatus == StringAt(condData.m, statusField)
             condReason == StringAt(condData.m, reasonField)
         IN  IF condType = <<>> THEN NoMetrics
             ELSE MustNewConstMetric(desc,
                    IF EqualFold(condStatus, s_true) THEN 1 ELSE 0,
                    commonLabels \o <<condType, condStatus, condReason>>, src)

collectConditionsMetric(desc, obj, cfg, commonLabels, src) ==
    LET typeField   == IF cfg.Condition.set /\ cfg.Condition.TypeField # <<>>
                       THEN cfg.Condition.TypeField ELSE f_type
        statusField == IF cfg.Condition.set /\ cfg.Condition.StatusField # <<>>
                       THEN cfg.Condition.StatusField ELSE f_status
        reasonField == IF cfg.Condition.set /\ cfg.Condition.ReasonField # <<>>
                       THEN cfg.Condition.ReasonField ELSE f_reason
        conditions  == extractFieldSlice(obj, cfg.Path)
    IN  IF conditions.t = "panic" THEN Panicked
        ELSE IF conditions.t = "nil" THEN NoMetrics
        ELSE Gather([i \in 1..Len(conditions.l) |->
                ConditionEntry(desc, conditions.l[i], typeField, statusField,
                               reasonField, commonLabels, src)])

NoSrc == <<>>

\* valueCounts of collectCountMetric: value -> number of the given cached
\* objects whose string at path is that value, built one increment at a time.
\* Mutant: the empty value is counted like any other.
RECURSIVE CountValues_CountEmpty(_, _, _)
CountValues_CountEmpty(keys, path, counts) ==
    IF keys = {} THEN counts
    ELSE LET k     == CHOOSE k \in keys : TRUE
             value == extractFieldString(Obj(resources[k]), path).s
         IN  CountValues_CountEmpty(keys \ {k}, path,
                [v \in DOMAIN counts \cup {value} |->
                    IF v \in DOMAIN counts
                    THEN counts[v] + (IF v = value THEN 1 ELSE 0)
                    ELSE 1])

RECURSIVE CountValues(_, _, _)
CountValues(keys, path, counts) ==
    IF keys = {} THEN counts
    ELSE LET k     == CHOOSE k \in keys : TRUE
             value == extractFieldString(Obj(resources[k]), path).s
         IN  IF value # <<>>
             THEN CountValues(keys \ {k}, path,
                    [v \in DOMAIN counts \cup {value} |->
                        IF v \in DOMAIN counts
                        THEN counts[v] + (IF v = value THEN 1 ELSE 0)
                        ELSE 1])
             ELSE CountValues(keys \ {k}, path, counts)

collectCountMetric(desc, cfg) ==
    IF \E k \in DOMAIN resources :
          extractFieldString(Obj(resources[k]), cfg.Path).t = "panic"
    THEN Panicked
    ELSE LET valueCounts == CountValues(DOMAIN resources, cfg.Path, <<>>)
         IN  Gather([value \in DOMAIN valueCounts |->
                MustNewConstMetric(desc, valueCounts[value], <<value>>, NoSrc)])

\* The body of the first-pass loop of collect for one cached object.
PerResourceMetric(cfg, obj, commonLabels, src) ==
    IF cfg.Name \notin DOMAIN descriptors THEN NoMetrics
    ELSE LET desc == descriptors[cfg.Name]
         IN  IF cfg.Type = t_info
             THEN collectInfoMetric(desc, obj, cfg, commonLabels, src)
             ELSE IF cfg.Type = t_gauge
             THEN collectGaugeMetric(desc, obj, cfg, commonLabels, src)
             ELSE IF cfg.Type = t_map_state
             THEN collectMapStateMetric(desc, obj, cfg, commonLabels, src)
             ELSE IF cfg.Type = t_map_gauge
             THEN collectMapGaugeMetric(desc, obj, cfg, commonLabels, src)
             ELSE IF cfg.Type = t_conditions
             THEN collectConditionsMetric(desc, obj, cfg, commonLabels, src)
             ELSE NoMetrics

collectResource(obj, src) ==
    LET commonLabels == extractCommonLabels(obj)
    IN  IF commonLabels.t = "panic" THEN Panicked
        ELSE Gather([i \in 1..Len(crdConfig.Metrics) |->
                PerResourceMetric(crdConfig.Metrics[i], obj, commonLabels.l, src)])

\* One iteration of the second-pass loop of collect.
collectAggregate(cfg) ==
    IF cfg.Type # t_count THEN NoMetrics
    ELSE IF cfg.Name \notin DOMAIN descriptors THEN NoMetrics
    ELSE collectCountMetric(descriptors[cfg.Name], cfg)

\* The iterations of the second pass from index i on that do something: the
\* others fall through their continue.
NextAggregate(i) ==
    IF \E j \in i..Len(crdConfig.Metrics) : crdConfig.Metrics[j].Type = t_count
    THEN CHOOSE j \in i..Len(crdConfig.Metrics) :
            /\ crdConfig.Metrics[j].Type = t_count
            /\ \A h \in i..(j - 1) : crdConfig.Metrics[h].Type # t_count
    ELSE Len(crdConfig.Metrics) + 1

-----------------------------------------------------------------------------
(* configurable.go: the cache and the event handlers *)

\* obj.GetNamespace() + "/" + obj.GetName()
GetNamespace(obj) == NestedString(obj, <<f_metadata, f_namespace>>).val

GetName(obj) == NestedString(obj, <<f_metadata, f_name>>).val

\* Mutant: the key is the namespace alone.
KeyOf_NamespaceOnly(o) == GetNamespace(Obj(o)) \o <<"/">>

KeyOf(o) == GetNamespace(Obj(o)) \o <<"/">> \o GetName(Obj(o))

\* Mutant: an entry already cached under the key is kept.
Store_KeepExisting(res, o) ==
    [k \in DOMAIN res \cup {KeyOf(o)} |-> IF k \in DOMAIN res THEN res[k] ELSE o]

\* c.resources[key] = obj
Store(res, o) ==
    [k \in DOMAIN res \cup {KeyOf(o)} |-> IF k = KeyOf(o) THEN o ELSE res[k]]

\* delete(c.resources, key)
Delete(res, o) == [k \in DOMAIN res \ {KeyOf(o)} |-> res[k]]

\* A handler is the sequence of critical sections (Lock ... Unlock) it runs.
handleAdd(obj) == <<[op |-> "store", obj |-> obj]>>

handleDelete(obj) == <<[op |-> "delete", obj |-> obj]>>

\* Mutant: the update removes the old object and then adds the new one, each
\* under its own Lock.
handleUpdate_DeleteThenAdd(oldObj, newObj) == handleDelete(oldObj) \o handleAdd(newObj)

handleUpdate(oldObj, newObj) == handleAdd(newObj)

\* The effect of one critical section on c.resources.
Section(res, sec) ==
    IF sec.op = "store" THEN Store(res, sec.obj) ELSE Delete(res, sec.obj)

\* Mutant: the read lock is released after the first pass.
ReadLockHeldAt_FirstPassOnly(pc) == pc = "pass1"

\* collect holds c.mu.RLock() from its first statement until it returns (the
\* deferred RUnlock), in every position but idle.
ReadLockHeldAt(pc) == pc \in {"pass1", "pass2", "done", "panicked"}

Idle == [kind |-> "idle", old |-> 0, new |-> 0, start |-> <<>>]

-----------------------------------------------------------------------------
(* The collector as a state machine: one event handler at a time (the       *)
(* informer delivers events one by one) and one scrape at a time, running   *)
(* concurrently and meeting at c.mu.                                        *)

NoInput == [obj |-> 0, path |-> <<>>]

NoOutput == [done |-> FALSE]

\* NewConfigurableCollector(crdConfig, metricPrefix, logger): an empty cache and
\* the descriptors of initMetrics; no handler and no collect is running.
InitCollector ==
    /\ resources = <<>>
    /\ descriptors = initMetrics(crdConfig, metricPrefix)
    /\ wq = <<>>
    /\ wlocked = FALSE
    /\ wop = Idle
    /\ lastEv = <<>>
    /\ rpc = "idle"
    /\ visited = {}
    /\ ci = 1
    /\ out = EmptyBag
    /\ seen1 = <<>>
    /\ snap = <<>>

NoExtract ==
    /\ xin = NoInput
    /\ xout = NoOutput

NoBuild ==
    /\ bin = NoInput
    /\ bout = <<>>

NoCall == [op |-> "none"]

\* c.informer == nil
NilInformer == [nil |-> TRUE, handlers |-> FALSE, running |-> FALSE, synced |-> FALSE]

\* NewController(dynamicClient, config, logger): no informer, no stop channel.
NewController ==
    /\ informer = NilInformer
    /\ informerStopCh = "nil"
    /\ ctx = "live"
    /\ cpc = "idle"
    /\ startResult = "none"
    /\ starts = 0
    /\ faulted = FALSE

NoHandler == [q |-> <<>>, locked |-> FALSE, last |-> [kind |-> "none"], n |-> 0]

\* No handler runs on either goroutine.
NoPair == hs = <<NoHandler, NoHandler>>

\* No informer watches an API server.
NoWorld == cluster = <<>> /\ pending = <<>>

\* No domain collector is in use.
NoDomainCollector == domains = <<>> /\ inflight = {} /\ ppc = "idle" /\ gone = {}

NoResult == [ptrs |-> <<>>, vals |-> <<>>]

\* No aggregator is looked at as a map of pointers.
NoSnapshot == refs = <<>> /\ heap = <<>> /\ held = NoResult /\ writes = <<>>

NoOther == NoWorld /\ NoDomainCollector /\ NoSnapshot

\* No aggregator is in use.
NoAggregator ==
    /\ now = 0
    /\ nextTick = 0
    /\ calls = 0
    /\ lastCall = NoCall
    /\ podAggregated = <<>>
    /\ abnormalPods = <<>>
    /\ maxEvents = 0
    /\ evAggregated = <<>>
    /\ stopCh = "open"
    /\ loop = "none"

\* The collector of the cache model runs under one map order, not the sorted
\* one.
Init ==
    /\ mapSeed = 1
    /\ InitCollector
    /\ NoExtract
    /\ NoBuild
    /\ NoAggregator
    /\ NewController
    /\ NoPair
    /\ NoOther

Record(ev, key, kind, o) ==
    [k \in DOMAIN ev \cup {key} |-> IF k = key THEN [kind |-> kind, obj |-> o] ELSE ev[k]]

\* The informer calls OnAdd(obj): handleAdd starts.
OnAdd(o) ==
    /\ wop.kind = "idle"
    /\ wop' = [kind |-> "add", old |-> 0, new |-> o, start |-> resources]
    /\ wq' = handleAdd(o)
    /\ lastEv' = Record(lastEv, KeyOf(o), "add", o)
    /\ UNCHANGED <<resources, descriptors, wlocked, rpc, visited, ci, out, seen1, snap, restVars>>

\* The informer calls OnUpdate(oldObj, newObj), two states of one object.
OnUpdate(old, new) ==
    /\ wop.kind = "idle"
    /\ KeyOf(old) = KeyOf(new)
    /\ wop' = [kind |-> "update", old |-> old, new |-> new, start |-> resources]
    /\ wq' = handleUpdate(old, new)
    /\ lastEv' = Record(lastEv, KeyOf(new), "update", new)
    /\ UNCHANGED <<resources, descriptors, wlocked, rpc, visited, ci, out, seen1, snap, restVars>>

\* The informer calls OnDelete(obj): handleDelete starts.
OnDelete(o) ==
    /\ wop.kind = "idle"
    /\ wop' = [kind |-> "delete", old |-> o, new |-> 0, start |-> resources]
    /\ wq' = handleDelete(o)
    /\ lastEv' = Record(lastEv, KeyOf(o), "delete", 0)
    /\ UNCHANGED <<resources, descriptors, wlocked, rpc, visited, ci, out, seen1, snap, restVars>>

\* c.mu.Lock(): granted when no scrape holds the read lock.
HandlerLock ==
    /\ wq # <<>>
    /\ ~wlocked
    /\ ~ReadLockHeldAt(rpc)
    /\ wlocked' = TRUE
    /\ UNCHANGED <<resources, descriptors, wq, wop, lastEv, rpc, visited, ci, out, seen1,
                   snap, restVars>>

\* The map mutation and the deferred c.mu.Unlock().
HandlerApply ==
    /\ wlocked
    /\ resources' = Section(resources, Head(wq))
    /\ wq' = Tail(wq)
    /\ wlocked' = FALSE
    /\ UNCHANGED <<descriptors, wop, lastEv, rpc, visited, ci, out, seen1, snap, restVars>>

\* The handler returns to the informer after its last critical section.
HandlerReturn ==
    /\ wop.kind # "idle"
    /\ wq = <<>>
    /\ ~wlocked
    /\ wop' = Idle
    /\ UNCHANGED <<resources, descriptors, wq, wlocked, lastEv, rpc, visited, ci, out, seen1,
                   snap, restVars>>

\* collect is called: c.mu.RLock(), granted when no handler holds the lock.
CollectRLock ==
    /\ rpc = "idle"
    /\ ~wlocked
    /\ rpc' = "pass1"
    /\ snap' = resources
    /\ UNCHANGED <<resources, descriptors, wq, wlocked, wop, lastEv, visited, ci, out, seen1,
                   restVars>>

\* First pass: the next object of the range over c.resources.
CollectResource(k) ==
    /\ rpc = "pass1"
    /\ k \in DOMAIN resources \ visited
    /\ LET r == collectResource(Obj(resources[k]), k)
       IN  /\ out' = out (+) r.ms
           /\ rpc' = IF r.panic THEN "panicked" ELSE rpc
    /\ visited' = visited \cup {k}
    /\ seen1' = [j \in DOMAIN seen1 \cup {k} |-> IF j = k THEN resources[k] ELSE seen1[j]]
    /\ UNCHANGED <<resources, descriptors, wq, wlocked, wop, lastEv, ci, snap, restVars>>

\* The range of the first pass is exhausted.
CollectSecondPass ==
    /\ rpc = "pass1"
    /\ DOMAIN resources \subseteq visited
    /\ rpc' = "pass2"
    /\ ci' = NextAggregate(1)
    /\ UNCHANGED <<resources, descriptors, wq, wlocked, wop, lastEv, visited, out, seen1,
                   snap, restVars>>

\* Second pass: the next count metric definition.
CollectAggregate ==
    /\ rpc = "pass2"
    /\ ci <= Len(crdConfig.Metrics)
    /\ LET r == collectAggregate(crdConfig.Metrics[ci])
       IN  /\ out' = out (+) r.ms
           /\ rpc' = IF r.panic THEN "panicked" ELSE rpc
    /\ ci' = NextAggregate(ci + 1)
    /\ UNCHANGED <<resources, descriptors, wq, wlocked, wop, lastEv, visited, seen1,
                   snap, restVars>>

\* The second pass is over: everything has been sent.
CollectDone ==
    /\ rpc = "pass2"
    /\ ci > Len(crdConfig.Metrics)
    /\ rpc' = "done"
    /\ UNCHANGED <<resources, descriptors, wq, wlocked, wop, lastEv, visited, ci, out, seen1,
                   snap, restVars>>

\* collect returns (or unwinds): the deferred c.mu.RUnlock().
CollectReturn ==
    /\ rpc \in {"done", "panicked"}
    /\ rpc' = "idle"
    /\ visited' = {}
    /\ ci' = 1
    /\ out' = EmptyBag
    /\ seen1' = <<>>
    /\ snap' = <<>>
    /\ UNCHANGED <<resources, descriptors, wq, wlocked, wop, lastEv, restVars>>

Next ==
    \/ \E o \in ObjIds : OnAdd(o)
    \/ \E old \in ObjIds, new \in ObjIds : OnUpdate(old, new)
    \/ \E o \in ObjIds : OnDelete(o)
    \/ HandlerLock
    \/ HandlerApply
    \/ HandlerReturn
    \/ CollectRLock
    \/ \E k \in DOMAIN resources : CollectResource(k)
    \/ CollectSecondPass
    \/ CollectAggregate
    \/ CollectDone
    \/ CollectReturn

Spec == Init /\ [][Next]_vars

-----------------------------------------------------------------------------
(* The extractors on their own: an object and a path are drawn, and the four *)
(* typed extractors are applied to them.                                     *)

Paths == {
    <<>>,
    f_status,
    f_spec,
    <<"n","o">>,
    <<".">>,
    Dot(f_metadata, f_name),
    Dot(f_status, f_phase),
    Dot(f_status, <<"n","o">>),
    Dot(f_spec, f_replicas),
    Dot(f_status, f_components),
    Dot(f_status, f_conditions),
    Dot(Dot(f_status, f_phase), <<"x">>),
    Dot(Dot(f_spec, f_replicas), <<"x">>),
    Dot(Dot(f_status, f_components), <<"x">>),
    Dot(Dot(f_status, f_components), <<"w">>),
    Dot(Dot(Dot(f_status, f_components), <<"x">>), f_ready),
    Dot(Dot(Dot(f_status, f_components), <<"w">>), f_ready),
    Dot(Dot(Dot(f_status, f_components), <<"z">>), f_ready),
    f_status \o <<".">>,
    <<".">> \o f_status,
    Dot(f_status, <<>>) \o <<".">> \o f_phase }

InitExtract ==
    /\ mapSeed = 0
    /\ InitCollector
    /\ NoBuild
    /\ NoAggregator
    /\ xin \in [obj : ObjIds, path : Paths]
    /\ xout = NoOutput
    /\ NewController
    /\ NoPair
    /\ NoOther

Extract ==
    /\ ~xout.done
    /\ xout' = [done   |-> TRUE,
                string |-> extractFieldString(Obj(xin.obj), xin.path),
                float  |-> extractFieldFloat(Obj(xin.obj), xin.path),
                map    |-> extractFieldMap(Obj(xin.obj), xin.path),
                slice  |-> extractFieldSlice(Obj(xin.obj), xin.path)]
    /\ UNCHANGED <<xin, collectorVars, buildVars, aggVars, ctlVars, pairVars, otherVars>>

NextExtract == Extract

SpecExtract == InitExtract /\ [][NextExtract]_vars

-----------------------------------------------------------------------------
(* Construction of the collector: NewConfigurableCollector is applied to a   *)
(* CRDConfig and a metric prefix drawn from small sets, more than once, each *)
(* time under a map order of its own.                                        *)

MaxSeed == 1

Seeds == 0..MaxSeed

MaxBuilds == 2

Prefixes == {<<>>, <<"p">>, <<"P","-">>}

CrdNames == {<<>>, <<"a">>, <<"A","-","b">>}

ResourceNames == {<<>>, <<"r">>}

MetricNames == {<<>>, <<"m">>, <<"M",".">>}

AllTypes == KnownTypes \cup {t_histogram}

CommonLabelChoices ==
    {<<>>, (f_name :> Dot(f_metadata, f_name)), crdConfig.CommonLabels}

MetricOf(type, name) ==
    MetricConfig(type, name, Dot(f_status, f_phase), f_phase, f_component, <<>>,
                 (f_phase :> Dot(f_status, f_phase))
                 @@ (f_reason :> Dot(f_status, f_reason)))

\* One metric definition of any type and name, or two definitions of which
\* the second may repeat the name of the first.
MetricLists ==
    {<<MetricOf(t, n)>> : t \in AllTypes, n \in MetricNames}
    \cup {<<MetricOf(t1, <<"m">>), MetricOf(t2, n2)>> :
            t1 \in {t_info, t_histogram}, t2 \in {t_gauge, t_histogram},
            n2 \in {<<"m">>, <<"x">>}}

BuildConfigs ==
    {[Name |-> n, Resource |-> r, CommonLabels |-> cl, Metrics |-> ms] :
        n \in CrdNames, r \in ResourceNames, cl \in CommonLabelChoices,
        ms \in MetricLists}

\* The validation of a CRDConfig before the engine is built from it: the name
\* and the resource of the GVR must not be empty.
Validate(config) == config.Name # <<>> /\ config.Resource # <<>>

\* newMultiCollector, for one CRD: an invalid definition is an error and no
\* collector is built; a valid one is handed to NewConfigurableCollector.
\* Mutant: an invalid definition is skipped without an error.
newMultiCollector_SkipInvalid(config, prefix) ==
    IF ~Validate(config)
    THEN [err |-> FALSE, descriptors |-> <<>>, resources |-> <<>>]
    ELSE NewConfigurableCollector(config, prefix)

newMultiCollector(config, prefix) ==
    IF ~Validate(config)
    THEN [err |-> TRUE, descriptors |-> <<>>, resources |-> <<>>]
    ELSE NewConfigurableCollector(config, prefix)

InitBuild ==
    /\ mapSeed \in Seeds
    /\ InitCollector
    /\ NoExtract
    /\ bin \in [config : BuildConfigs, prefix : Prefixes]
    /\ bout = <<>>
    /\ NoAggregator
    /\ NewController
    /\ NoPair
    /\ NoOther

\* A call of fn: its result is recorded with the map order it ran under, and
\* the next call may see another map order.
Built(call, result) ==
    /\ Len(bout) < MaxBuilds
    /\ bout' = Append(bout, [call |-> call, seed |-> mapSeed, result |-> result])
    /\ mapSeed' \in Seeds
    /\ UNCHANGED <<bin, collectorVars, extractVars, aggVars, ctlVars, pairVars, otherVars>>

\* A caller (the tests, the factory) calls NewConfigurableCollector.
Construct == Built("NewConfigurableCollector", NewConfigurableCollector(bin.config, bin.prefix))

\* The factory builds the collector of one CRD of the loaded configuration.
ConstructChecked == Built("newMultiCollector", newMultiCollector(bin.config, bin.prefix))

NextBuild == Construct \/ ConstructChecked

SpecBuild == InitBuild /\ [][NextBuild]_vars

-----------------------------------------------------------------------------
(* The windowed aggregators (package pod, package event).  Every method     *)
(* runs under the aggregator's mutex from its first read to its return, so  *)
(* a call is one step.  Time is counted in half windows: the cleanup ticker *)
(* ticks every windowSize, its first tick at any phase; a tick that is due  *)
(* is served before the clock moves on.                                     *)

HalfWindow == 1

\* The windowSize the aggregators are created with.
windowSize == 2 * HalfWindow

MaxTime == 6

MaxCalls == 3

PodRunning == <<"R","u","n","n","i","n","g">>
PodFailed  == <<"F","a","i","l","e","d">>
PodPending == <<"P","e","n","d","i","n","g">>
PodUnknown == <<"U","n","k","n","o","w","n">>

PodScheduled == "PodScheduled"
PodReady     == "Ready"

ConditionFalse == "False"
ConditionTrue  == "True"

NilPod == [nil |-> TRUE]

Pod(ns, name, phase, conditions) ==
    [nil |-> FALSE, Namespace |-> ns, Name |-> name, Phase |-> phase,
     Conditions |-> conditions]

\* The pods the informer may hand to the aggregator: a nil pointer, and two
\* pods of one namespace: p running and ready or failed, q running and not
\* ready or pending and not scheduled.
Pods ==
    {NilPod,
     Pod(<<"a">>, <<"p">>, PodRunning, <<[Type |-> PodReady, Status |-> ConditionTrue]>>),
     Pod(<<"a">>, <<"p">>, PodFailed, <<>>),
     Pod(<<"a">>, <<"q">>, PodRunning, <<[Type |-> PodReady, Status |-> ConditionFalse]>>),
     Pod(<<"a">>, <<"q">>, PodPending,
         <<[Type |-> PodScheduled, Status |-> ConditionFalse]>>)}

\* podAggregationKey: namespace + "/" + phase.
podAggregationKey(pod) == pod.Namespace \o <<"/">> \o pod.Phase

\* isPodAbnormal: Failed or Unknown; Pending and not scheduled; Running and
\* not ready.
isPodAbnormal(pod) ==
    IF pod.Phase \in {PodFailed, PodUnknown} THEN TRUE
    ELSE IF pod.Phase = PodPending
    THEN \E i \in 1..Len(pod.Conditions) :
            pod.Conditions[i].Type = PodScheduled /\ pod.Conditions[i].Status = ConditionFalse
    ELSE IF pod.Phase = PodRunning
    THEN \E i \in 1..Len(pod.Conditions) :
            pod.Conditions[i].Type = PodReady /\ pod.Conditions[i].Status = ConditionFalse
    ELSE FALSE

\* m[key] = value on a Go map.
MapSet(m, key, value) ==
    [k \in DOMAIN m \cup {key} |-> IF k = key THEN value ELSE m[k]]

\* delete(m, key) on a Go map.
MapDelete(m, key) == [k \in DOMAIN m \ {key} |-> m[k]]

\* The bucket map after AddPod(pod) at time t.
AddPodBuckets(agg, pod, t) ==
    LET key == podAggregationKey(pod)
    IN  IF key \in DOMAIN agg
        THEN MapSet(agg, key, [agg[key] EXCEPT !.Count = Cardinality(agg[key].Pods) + 1,
                                               !.LastSeen = t,
                                               !.Pods = agg[key].Pods \cup {pod.Name}])
        ELSE MapSet(agg, key, [Namespace |-> pod.Namespace, Phase |-> pod.Phase,
                               Count |-> 1, LastSeen |-> t, Pods |-> {pod.Name}])

\* Mutant: every AddPod of an abnormal pod records now as first seen.
AddPodAbnormal_Reset(abnormal, pod, t) ==
    IF isPodAbnormal(pod)
    THEN MapSet(abnormal, pod.Namespace \o <<"/">> \o pod.Name, t)
    ELSE abnormal

\* The abnormal-tracking map after AddPod(pod) at time t.
AddPodAbnormal(abnormal, pod, t) ==
    LET abnormalKey == pod.Namespace \o <<"/">> \o pod.Name
    IN  IF isPodAbnormal(pod) /\ abnormalKey \notin DOMAIN abnormal
        THEN MapSet(abnormal, abnormalKey, t)
        ELSE abnormal

\* Mutant: a bucket is kept when its last pod is removed.
RemovePodBuckets_KeepEmpty(agg, pod) ==
    LET key == podAggregationKey(pod)
    IN  IF key \in DOMAIN agg
        THEN MapSet(agg, key, [agg[key] EXCEPT !.Pods = agg[key].Pods \ {pod.Name},
                                               !.Count = Cardinality(agg[key].Pods \ {pod.Name})])
        ELSE agg

\* The bucket map after RemovePod(pod).
RemovePodBuckets(agg, pod) ==
    LET key  == podAggregationKey(pod)
        pods == agg[key].Pods \ {pod.Name}
    IN  IF key \in DOMAIN agg
        THEN IF Cardinality(pods) = 0 THEN MapDelete(agg, key)
             ELSE MapSet(agg, key, [agg[key] EXCEPT !.Pods = pods,
                                                    !.Count = Cardinality(pods)])
        ELSE agg

\* The bucket map after cleanup at time t: the buckets last seen before
\* t - 2 * windowSize are deleted.
PodCleanup(agg, t) ==
    LET threshold == t - windowSize * 2
    IN  [k \in {k \in DOMAIN agg : ~(agg[k].LastSeen < threshold)} |-> agg[k]]

\* NewPodAggregator(windowSize) and Start(): empty maps, the ticker running.
InitPod ==
    /\ mapSeed = 0
    /\ InitCollector
    /\ NoExtract
    /\ NoBuild
    /\ now = 0
    /\ nextTick \in 0..(windowSize - 1)
    /\ calls = 0
    /\ lastCall = NoCall
    /\ podAggregated = <<>>
    /\ abnormalPods = <<>>
    /\ maxEvents = 0
    /\ evAggregated = <<>>
    /\ stopCh = "open"
    /\ loop = "select"
    /\ NewController
    /\ NoPair
    /\ NoOther

AggregatorFrame ==
    UNCHANGED <<collectorVars, extractVars, buildVars, ctlVars, pairVars, otherVars>>

\* Mutant: the select of cleanupLoop has no stop case.
cleanupLoopReady_IgnoreStop ==
    IF loop = "select" /\ nextTick = now THEN {"tick"} ELSE {}

\* cleanupLoop: the cases of its select that are ready, while the goroutine
\* is at the select.  A ready case is served before the clock moves on.
cleanupLoopReady ==
    IF loop # "select" THEN {}
    ELSE (IF nextTick = now THEN {"tick"} ELSE {})
         \cup (IF stopCh = "closed" THEN {"stop"} ELSE {})

\* A caller makes one of at most limit calls.
CalledWithin(limit, op, arg) ==
    /\ calls < limit
    /\ cleanupLoopReady = {}
    /\ calls' = calls + 1
    /\ lastCall' = [op |-> op, arg |-> arg]
    /\ UNCHANGED <<now, nextTick, stopVars>>

Called(op, arg) == CalledWithin(MaxCalls, op, arg)

AddPod(pod) ==
    /\ Called("AddPod", pod)
    /\ IF pod.nil THEN UNCHANGED podVars
       ELSE /\ podAggregated' = AddPodBuckets(podAggregated, pod, now)
            /\ abnormalPods' = AddPodAbnormal(abnormalPods, pod, now)
    /\ UNCHANGED eventVars
    /\ AggregatorFrame

RemovePod(pod) ==
    /\ Called("RemovePod", pod)
    /\ IF pod.nil THEN UNCHANGED podVars
       ELSE /\ podAggregated' = RemovePodBuckets(podAggregated, pod)
            /\ abnormalPods' = MapDelete(abnormalPods, pod.Namespace \o <<"/">> \o pod.Name)
    /\ UNCHANGED eventVars
    /\ AggregatorFrame

\* GetAbnormalDuration(namespace, podName) at time t.
GetAbnormalDuration(abnormal, namespace, podName, t) ==
    LET key == namespace \o <<"/">> \o podName
    IN  IF key \in DOMAIN abnormal THEN t - abnormal[key] ELSE 0

\* GetAggregated of either aggregator: a new map holding the entries of the
\* aggregator's map.
GetAggregatedResult(agg) == [k \in DOMAIN agg |-> agg[k]]

\* PodAggregator.GetAggregated().
PodGetAggregated ==
    /\ Called("GetAggregated", GetAggregatedResult(podAggregated))
    /\ UNCHANGED <<podVars, eventVars>>
    /\ AggregatorFrame

\* Mutant: cleanup also ends the tracking of the pods that are in no bucket
\* any more.
PodCleanupTick_DropTracking ==
    /\ "tick" \in cleanupLoopReady
    /\ nextTick' = nextTick + windowSize
    /\ podAggregated' = PodCleanup(podAggregated, now)
    /\ abnormalPods' =
          [k \in {k \in DOMAIN abnormalPods :
                     \E b \in DOMAIN podAggregated' :
                        \E name \in podAggregated'[b].Pods :
                           k = podAggregated'[b].Namespace \o <<"/">> \o name}
             |-> abnormalPods[k]]
    /\ UNCHANGED <<now, calls, lastCall, eventVars, stopVars>>
    /\ AggregatorFrame

\* cleanupLoop: a tick of the ticker runs cleanup.
PodCleanupTick ==
    /\ "tick" \in cleanupLoopReady
    /\ nextTick' = nextTick + windowSize
    /\ podAggregated' = PodCleanup(podAggregated, now)
    /\ UNCHANGED <<now, calls, lastCall, abnormalPods, eventVars, stopVars>>
    /\ AggregatorFrame

\* Stop(): the stop channel is closed.  (Stop is called once: closing a
\* closed channel panics.)
Stop ==
    /\ stopCh = "open"
    /\ stopCh' = "closed"
    /\ lastCall' = [op |-> "Stop", arg |-> now]
    /\ UNCHANGED <<now, nextTick, calls, loop, podVars, eventVars>>
    /\ AggregatorFrame

\* cleanupLoop: the stop case of the select returns; the deferred
\* ticker.Stop() ends the ticks.
cleanupLoopReturn ==
    /\ "stop" \in cleanupLoopReady
    /\ loop' = "returned"
    /\ UNCHANGED <<stopCh, clockVars, podVars, eventVars>>
    /\ AggregatorFrame

\* Time passes.
Advance ==
    /\ now < MaxTime
    /\ cleanupLoopReady = {}
    /\ now' = now + 1
    /\ UNCHANGED <<nextTick, calls, lastCall, podVars, eventVars, stopVars>>
    /\ AggregatorFrame

NextPod ==
    \/ \E pod \in Pods : AddPod(pod)
    \/ \E pod \in Pods : RemovePod(pod)
    \/ PodCleanupTick
    \/ Advance

SpecPod == InitPod /\ [][NextPod]_vars

-----------------------------------------------------------------------------
(* aggregator.go: the event aggregator *)

\* One hour, the age at which cleanup deletes a bucket, in half windows.
Hour == 5

\* The largest maxEvents an aggregator is created with.
MaxEvents == 2

NilEvent == [nil |-> TRUE]

Event(reason, name, count, first) ==
    [nil |-> FALSE, Namespace |-> <<"a">>, Reason |-> reason, Type |-> "Warning",
     Kind |-> <<"P","o","d">>, Name |-> name, Count |-> count, FirstTimestamp |-> first]

\* The events the informer may hand to the aggregator: a nil pointer, events
\* of one reason about two objects and about no named object, and events of
\* two other reasons.
Events ==
    {NilEvent,
     Event(<<"r">>, <<"o">>, 1, 0),
     Event(<<"r">>, <<"u">>, 2, 1),
     Event(<<"r">>, <<>>, 1, 0),
     Event(<<"s">>, <<"o">>, 1, 0),
     Event(<<"t">>, <<"o">>, 1, 1)}

\* eventAggregationKey: namespace + "/" + reason + "/" + kind.
eventAggregationKey(event) ==
    event.Namespace \o <<"/">> \o event.Reason \o <<"/">> \o event.Kind

\* Mutant: removeOldest ends its loop with any key of the map.
OldestKeys_Any(agg) == DOMAIN agg

\* The keys removeOldest may end its loop with: the loop keeps the first key
\* of the map order whose bucket no later key is strictly older than, so any
\* bucket of the least LastSeen may be the one.
OldestKeys(agg) ==
    {k \in DOMAIN agg : \A j \in DOMAIN agg : ~(agg[j].LastSeen < agg[k].LastSeen)}

\* Mutant: removeOldest deletes nothing.
removeOldest_Keep(agg, oldestKey) == agg

\* removeOldest, ending its loop with oldestKey.
removeOldest(agg, oldestKey) == MapDelete(agg, oldestKey)

\* AddEvent after the capacity check: the bucket of the event's key is
\* updated, or created.
AddEventBucket(agg, event, t) ==
    LET key     == eventAggregationKey(event)
        objects == IF event.Name # <<>> THEN {event.Name} ELSE {}
    IN  IF key \in DOMAIN agg
        THEN MapSet(agg, key, [agg[key] EXCEPT !.Count = agg[key].Count + event.Count,
                                               !.LastSeen = t,
                                               !.UniqueObjects = agg[key].UniqueObjects
                                                                   \cup objects])
        ELSE MapSet(agg, key, [Namespace |-> event.Namespace, Reason |-> event.Reason,
                               Type |-> event.Type, Kind |-> event.Kind,
                               Count |-> event.Count, LastSeen |-> t,
                               FirstSeen |-> event.FirstTimestamp,
                               UniqueObjects |-> objects])

\* The bucket map after cleanup at time t: the buckets last seen more than an
\* hour before t are deleted.
EventCleanup(agg, t) ==
    LET threshold == t - Hour
    IN  [k \in {k \in DOMAIN agg : ~(agg[k].LastSeen < threshold)} |-> agg[k]]

\* NewEventAggregator(windowSize, maxEvents) and Start().
InitEvent ==
    /\ mapSeed = 0
    /\ InitCollector
    /\ NoExtract
    /\ NoBuild
    /\ now = 0
    /\ nextTick \in 0..(windowSize - 1)
    /\ calls = 0
    /\ lastCall = NoCall
    /\ podAggregated = <<>>
    /\ abnormalPods = <<>>
    /\ maxEvents \in 1..MaxEvents
    /\ evAggregated = <<>>
    /\ stopCh = "open"
    /\ loop = "select"
    /\ NewController
    /\ NoPair
    /\ NoOther

\* AddEvent(nil) returns at once.
AddEventNil ==
    /\ Called("AddEvent", NilEvent)
    /\ UNCHANGED <<podVars, eventVars>>
    /\ AggregatorFrame

\* AddEvent below the limit, one of at most limit calls.
AddEventBelowLimitWithin(limit, event) ==
    /\ ~event.nil
    /\ ~(Cardinality(DOMAIN evAggregated) >= maxEvents)
    /\ CalledWithin(limit, "AddEvent", event)
    /\ evAggregated' = AddEventBucket(evAggregated, event, now)
    /\ UNCHANGED <<podVars, maxEvents>>
    /\ AggregatorFrame

AddEventBelowLimit(event) == AddEventBelowLimitWithin(MaxCalls, event)

\* AddEvent at the limit, one of at most limit calls: removeOldest runs first.
AddEventAtLimitWithin(limit, event) ==
    /\ ~event.nil
    /\ Cardinality(DOMAIN evAggregated) >= maxEvents
    /\ CalledWithin(limit, "AddEvent", event)
    /\ \E oldestKey \in OldestKeys(evAggregated) :
          evAggregated' = AddEventBucket(removeOldest(evAggregated, oldestKey), event, now)
    /\ UNCHANGED <<podVars, maxEvents>>
    /\ AggregatorFrame

AddEventAtLimit(event) == AddEventAtLimitWithin(MaxCalls, event)

\* EventAggregator.GetAggregated().
EventGetAggregated ==
    /\ Called("GetAggregated", GetAggregatedResult(evAggregated))
    /\ UNCHANGED <<podVars, eventVars>>
    /\ AggregatorFrame

\* cleanupLoop: a tick of the ticker runs cleanup.
EventCleanupTick ==
    /\ "tick" \in cleanupLoopReady
    /\ nextTick' = nextTick + windowSize
    /\ evAggregated' = EventCleanup(evAggregated, now)
    /\ UNCHANGED <<now, calls, lastCall, podVars, maxEvents, stopVars>>
    /\ AggregatorFrame

NextEvent ==
    \/ AddEventNil
    \/ \E event \in Events : AddEventBelowLimit(event)
    \/ \E event \in Events : AddEventAtLimit(event)
    \/ EventCleanupTick
    \/ Advance

SpecEvent == InitEvent /\ [][NextEvent]_vars

-----------------------------------------------------------------------------
(* The event aggregator at capacity: an aggregator of three entries and     *)
(* events of four keys, each call at any time.                              *)

\* The number of AddEvent calls of a run.
MaxTouches == 5

\* Events of the keys A, B, C and D.
EventA == Event(<<"A">>, <<"o">>, 1, 0)
EventB == Event(<<"B">>, <<"o">>, 1, 0)
EventC == Event(<<"C">>, <<"o">>, 1, 0)
EventD == Event(<<"D">>, <<"o">>, 1, 0)

LruEvents == {EventA, EventB, EventC, EventD}

\* NewEventAggregator(windowSize, 3) and Start().
InitLRU ==
    /\ mapSeed = 0
    /\ InitCollector
    /\ NoExtract
    /\ NoBuild
    /\ now = 0
    /\ nextTick \in 0..(windowSize - 1)
    /\ calls = 0
    /\ lastCall = NoCall
    /\ podAggregated = <<>>
    /\ abnormalPods = <<>>
    /\ maxEvents = 3
    /\ evAggregated = <<>>
    /\ stopCh = "open"
    /\ loop = "select"
    /\ NewController
    /\ NoPair
    /\ NoOther

NextLRU ==
    \/ \E event \in LruEvents : AddEventBelowLimitWithin(MaxTouches, event)
    \/ \E event \in LruEvents : AddEventAtLimitWithin(MaxTouches, event)
    \/ EventCleanupTick
    \/ Advance

SpecLRU == InitLRU /\ [][NextLRU]_vars

-----------------------------------------------------------------------------
(* Stopping an aggregator.  The aggregator of a run is the event aggregator *)
(* when one was created (maxEvents >= 1) and the pod aggregator otherwise;  *)
(* the goroutine of cleanupLoop is scheduled once its select has a ready    *)
(* case.                                                                    *)

StopPods ==
    {Pod(<<"a">>, <<"p">>, PodFailed, <<>>),
     Pod(<<"a">>, <<"q">>, PodRunning, <<[Type |-> PodReady, Status |-> ConditionFalse]>>)}

StopEvents == {Event(<<"r">>, <<"o">>, 1, 0), Event(<<"s">>, <<"o">>, 1, 0)}

InitStop == InitPod \/ InitEvent

NextStop ==
    \/ maxEvents = 0 /\ \E pod \in StopPods : AddPod(pod)
    \/ maxEvents = 0 /\ \E pod \in StopPods : RemovePod(pod)
    \/ maxEvents = 0 /\ PodGetAggregated
    \/ maxEvents = 0 /\ PodCleanupTick
    \/ maxEvents > 0 /\ \E event \in StopEvents : AddEventBelowLimit(event)
    \/ maxEvents > 0 /\ \E event \in StopEvents : AddEventAtLimit(event)
    \/ maxEvents > 0 /\ EventGetAggregated
    \/ maxEvents > 0 /\ EventCleanupTick
    \/ Stop
    \/ cleanupLoopReturn
    \/ Advance

SpecStop == InitStop /\ [][NextStop]_vars /\ WF_vars(cleanupLoopReturn)

-----------------------------------------------------------------------------
(* The aggregators as Go has them: aggregated is a map from a key to the    *)
(* address of a bucket struct.  A call holds the mutex from its first       *)
(* statement to its return and makes its writes one after another; the map  *)
(* GetAggregated returns holds the addresses it copied, and its caller      *)
(* reads the structs through them without the mutex.  The aggregator of a   *)
(* run is the event aggregator when maxEvents >= 1 and the pod aggregator   *)
(* otherwise.                                                               *)

\* The buckets a map of addresses leads to.
Deref(ptrs, structs) == [k \in DOMAIN ptrs |-> structs[ptrs[k]]]

Range(f) == {f[k] : k \in DOMAIN f}

\* The address of a newly allocated struct.
NewAddress(structs) == CHOOSE a \in 1..(Cardinality(DOMAIN structs) + 1) : a \notin DOMAIN structs

\* The structs that are still reachable (the others are garbage).
Reachable(structs, ptrs, result) ==
    [a \in DOMAIN structs \cap (Range(ptrs) \cup Range(result.ptrs)) |-> structs[a]]

SetField(key, field, value) == [kind |-> "field", key |-> key, field |-> field, value |-> value]

NewBucket(key, bucket) == [kind |-> "new", key |-> key, bucket |-> bucket]

DeleteKey(key) == [kind |-> "delete", key |-> key]

\* AddPod under the mutex: the writes it makes, in the order of the code.
AddPodWrites(agg, pod, t) ==
    LET key == podAggregationKey(pod)
        b   == AddPodBuckets(agg, pod, t)[key]
    IN  IF key \in DOMAIN agg
        THEN <<SetField(key, "Count", b.Count), SetField(key, "LastSeen", b.LastSeen),
               SetField(key, "Pods", b.Pods)>>
        ELSE <<NewBucket(key, b)>>

\* RemovePod under the mutex.
RemovePodWrites(agg, pod) ==
    LET key  == podAggregationKey(pod)
        pods == agg[key].Pods \ {pod.Name}
    IN  IF key \in DOMAIN agg
        THEN <<SetField(key, "Pods", pods), SetField(key, "Count", Cardinality(pods))>>
             \o (IF Cardinality(pods) = 0 THEN <<DeleteKey(key)>> ELSE <<>>)
        ELSE <<>>

\* AddEvent under the mutex, after the capacity check.
AddEventWrites(agg, event, t) ==
    LET key == eventAggregationKey(event)
        b   == AddEventBucket(agg, event, t)[key]
    IN  IF key \in DOMAIN agg
        THEN <<SetField(key, "Count", b.Count), SetField(key, "LastSeen", b.LastSeen)>>
             \o (IF event.Name # <<>>
                 THEN <<SetField(key, "UniqueObjects", b.UniqueObjects)>> ELSE <<>>)
        ELSE <<NewBucket(key, b)>>

\* cleanup under the mutex: one delete for each bucket it is to delete.
CleanupWrites(agg, kept) ==
    LET keys == SortStrings(DOMAIN agg \ DOMAIN kept)
    IN  [i \in 1..Len(keys) |-> DeleteKey(keys[i])]

\* The map of addresses after a write.
WriteRefs(ptrs, structs, w) ==
    IF w.kind = "new" THEN MapSet(ptrs, w.key, NewAddress(structs))
    ELSE IF w.kind = "delete" THEN MapDelete(ptrs, w.key)
    ELSE ptrs

\* The structs after a write.
WriteHeap(ptrs, structs, w) ==
    IF w.kind = "new" THEN MapSet(structs, NewAddress(structs), w.bucket)
    ELSE IF w.kind = "field"
    THEN MapSet(structs, ptrs[w.key],
                [f \in DOMAIN structs[ptrs[w.key]] |->
                    IF f = w.field THEN w.value ELSE structs[ptrs[w.key]][f]])
    ELSE structs

\* GetAggregated: result[k] = v for every key, v the address of the bucket;
\* vals is what the caller finds in the structs when the call returns.
GetAggregatedPointers(ptrs, structs) ==
    [ptrs |-> [k \in DOMAIN ptrs |-> ptrs[k]], vals |-> Deref(ptrs, structs)]

\* What the caller of GetAggregated reads in the map it was returned.
ReadResult(result, structs) ==
    [k \in DOMAIN result.vals |->
        IF k \in DOMAIN result.ptrs THEN structs[result.ptrs[k]] ELSE result.vals[k]]

SnapshotFrame ==
    UNCHANGED <<collectorVars, extractVars, buildVars, ctlVars, pairVars, worldVars,
                domainVars, podVars, eventVars>>

\* NewPodAggregator or NewEventAggregator, and Start().
InitSnapshot ==
    /\ mapSeed = 0
    /\ InitCollector
    /\ NoExtract
    /\ NoBuild
    /\ now = 0
    /\ nextTick \in 0..(windowSize - 1)
    /\ calls = 0
    /\ lastCall = NoCall
    /\ podAggregated = <<>>
    /\ abnormalPods = <<>>
    /\ maxEvents \in 0..MaxEvents
    /\ evAggregated = <<>>
    /\ stopCh = "open"
    /\ loop = "select"
    /\ NewController
    /\ NoPair
    /\ NoWorld
    /\ NoDomainCollector
    /\ NoSnapshot

\* A call takes the mutex (no other call holds it) and has its writes to make.
Locked(op, arg, ws) ==
    /\ writes = <<>>
    /\ Called(op, arg)
    /\ writes' = ws
    /\ UNCHANGED <<refs, heap, held>>
    /\ SnapshotFrame

\* PodAggregator.AddPod(pod).
LockedAddPod(pod) ==
    /\ maxEvents = 0
    /\ Locked("AddPod", pod, AddPodWrites(Deref(refs, heap), pod, now))

\* PodAggregator.RemovePod(pod).
LockedRemovePod(pod) ==
    /\ maxEvents = 0
    /\ Locked("RemovePod", pod, RemovePodWrites(Deref(refs, heap), pod))

\* EventAggregator.AddEvent(event): removeOldest first when at the limit.
LockedAddEvent(event) ==
    /\ maxEvents > 0
    /\ LET agg == Deref(refs, heap)
       IN  IF Cardinality(DOMAIN agg) >= maxEvents
           THEN \E oldestKey \in OldestKeys(agg) :
                   Locked("AddEvent", event,
                          <<DeleteKey(oldestKey)>>
                             \o AddEventWrites(removeOldest(agg, oldestKey), event, now))
           ELSE Locked("AddEvent", event, AddEventWrites(agg, event, now))

\* The running call makes its next write.
Write ==
    /\ writes # <<>>
    /\ refs' = WriteRefs(refs, heap, Head(writes))
    /\ heap' = Reachable(WriteHeap(refs, heap, Head(writes)), refs', held)
    /\ writes' = Tail(writes)
    /\ UNCHANGED <<held, clockVars, stopVars>>
    /\ SnapshotFrame

\* GetAggregated() of either aggregator, under the read lock.
LockedGetAggregated ==
    /\ writes = <<>>
    /\ Called("GetAggregated", Deref(refs, heap))
    /\ held' = GetAggregatedPointers(refs, heap)
    /\ heap' = Reachable(heap, refs, held')
    /\ UNCHANGED <<refs, writes>>
    /\ SnapshotFrame

\* cleanupLoop: a tick of the ticker runs cleanup, which takes the mutex.
LockedCleanupTick ==
    /\ "tick" \in cleanupLoopReady
    /\ writes = <<>>
    /\ nextTick' = nextTick + windowSize
    /\ LET agg == Deref(refs, heap)
       IN  writes' = CleanupWrites(agg, IF maxEvents = 0 THEN PodCleanup(agg, now)
                                          ELSE EventCleanup(agg, now))
    /\ UNCHANGED <<now, calls, lastCall, stopVars, refs, heap, held>>
    /\ SnapshotFrame

NextSnapshot ==
    \/ \E pod \in StopPods : LockedAddPod(pod)
    \/ \E pod \in StopPods : LockedRemovePod(pod)
    \/ \E event \in StopEvents : LockedAddEvent(event)
    \/ LockedGetAggregated
    \/ LockedCleanupTick
    \/ Write
    \/ Advance

SpecSnapshot == InitSnapshot /\ [][NextSnapshot]_vars

-----------------------------------------------------------------------------
(* controller.go: the controller and its informer.  The informer is a       *)
(* shared informer of client-go: once run it lists and watches, calls the   *)
(* registered handlers, reports HasSynced once the initial list is in its   *)
(* store, and stops when its stop channel is closed.                        *)

\* The number of Start calls of a run.
MaxStarts == 2

\* The informer lists and watches the first MaxWatched objects of the catalog.
MaxWatched == 3

WatchedIds == 1..MaxWatched

\* Mutant: the informer goes on calling the handlers after its stop channel
\* is closed.
Delivering_AfterStop == ~faulted /\ ~informer.nil /\ informer.handlers

\* The informer calls the handlers registered with it while it runs.
Delivering == ~faulted /\ ~informer.nil /\ informer.handlers /\ informer.running

\* The values the informer may pass to DeleteFunc as obj (an any): a pointer
\* to an Unstructured, a cache.DeletedFinalStateUnknown holding any of these
\* in Obj, and a value of another type.
Unstructured(o) == [type |-> "Unstructured", obj |-> o]

DeletedFinalStateUnknown(inner) == [type |-> "DeletedFinalStateUnknown", Obj |-> inner]

OtherValue == [type |-> "other"]

DeleteNotifications ==
    {Unstructured(o) : o \in WatchedIds}
    \cup {DeletedFinalStateUnknown(Unstructured(o)) : o \in WatchedIds}
    \cup {OtherValue, DeletedFinalStateUnknown(OtherValue)}

\* Mutant: DeleteFunc has no tombstone branch.
DeleteFuncObject_NoTombstone(obj) ==
    IF obj.type = "Unstructured" THEN {obj.obj} ELSE {}

\* DeleteFunc, the two type assertions: the object it goes on to pass to
\* OnDelete, none when it returns after logging an error.
DeleteFuncObject(obj) ==
    IF obj.type = "Unstructured" THEN {obj.obj}
    ELSE IF obj.type # "DeletedFinalStateUnknown" THEN {}
    ELSE IF obj.Obj.type # "Unstructured" THEN {}
    ELSE {obj.Obj.obj}

\* The informer calls DeleteFunc(obj): it calls OnDelete(u), which is
\* handleDelete(u), with the object it decoded, or returns at once.
DeleteFunc(obj) ==
    /\ wop.kind = "idle"
    /\ IF DeleteFuncObject(obj) = {}
       THEN /\ wop' = [kind |-> "dropped", old |-> 0, new |-> 0, start |-> resources,
                       arg |-> obj]
            /\ wq' = <<>>
            /\ UNCHANGED lastEv
       ELSE \E u \in DeleteFuncObject(obj) :
               /\ wop' = [kind |-> "delete", old |-> u, new |-> 0, start |-> resources,
                          arg |-> obj]
               /\ wq' = handleDelete(u)
               /\ lastEv' = Record(lastEv, KeyOf(u), "delete", 0)
    /\ UNCHANGED <<resources, descriptors, wlocked, rpc, visited, ci, out, seen1, snap, restVars>>

\* Mutant: the wait returns true at once.
WaitForCacheSync_NoWait(synced, done) == {TRUE}

\* cache.WaitForCacheSync(ctx.Done(), c.informer.HasSynced): what the wait
\* can return now: true when the informer has synced, false when the context
\* is done (either, when both hold at the same poll); it goes on waiting
\* otherwise.
WaitForCacheSync(synced, done) ==
    (IF synced THEN {TRUE} ELSE {}) \cup (IF done THEN {FALSE} ELSE {})

\* Mutant: Start reports success whatever the wait returned.
startAfterWait_IgnoreFailure(ok) == [result |-> "ok", close |-> FALSE]

\* Start after the wait: a failed wait closes the stop channel and is
\* returned as an error.
startAfterWait(ok) ==
    IF ~ok THEN [result |-> "error", close |-> TRUE]
    ELSE [result |-> "ok", close |-> FALSE]

\* Controller.HasSynced().
HasSynced == IF informer.nil THEN FALSE ELSE informer.synced

ControllerFrame ==
    UNCHANGED <<collectorVars, extractVars, buildVars, aggVars, pairVars, otherVars>>

\* Start, first part: the informer of the GVR is created and the Add, Update
\* and Delete handlers are registered with it.  (Start is called on a
\* controller whose informer does not run; AddEventHandler fails only on a
\* stopped informer.)
StartRegister ==
    /\ ~faulted
    /\ cpc = "idle"
    /\ ~informer.running
    /\ starts < MaxStarts
    /\ starts' = starts + 1
    /\ ctx' \in {"live", "done"}
    /\ informer' = [nil |-> FALSE, handlers |-> TRUE, running |-> FALSE, synced |-> FALSE]
    /\ cpc' = "registered"
    /\ startResult' = "pending"
    /\ UNCHANGED <<informerStopCh, faulted>>
    /\ ControllerFrame

\* Start: a new stop channel is made and the informer is run on it.
StartRun ==
    /\ cpc = "registered"
    /\ informerStopCh' = "open"
    /\ informer' = [informer EXCEPT !.running = TRUE]
    /\ cpc' = "waiting"
    /\ UNCHANGED <<ctx, startResult, starts, faulted>>
    /\ ControllerFrame

\* The informer has the initial list in its store.
InformerSynced ==
    /\ ~faulted
    /\ informer.running
    /\ ~informer.synced
    /\ informer' = [informer EXCEPT !.synced = TRUE]
    /\ UNCHANGED <<informerStopCh, ctx, cpc, startResult, starts, faulted>>
    /\ ControllerFrame

\* The context passed to Start is cancelled or times out.
CtxDone ==
    /\ cpc # "idle"
    /\ ctx = "live"
    /\ ctx' = "done"
    /\ UNCHANGED <<informer, informerStopCh, cpc, startResult, starts, faulted>>
    /\ ControllerFrame

\* Start: the wait returns and Start returns.
StartReturn ==
    /\ cpc = "waiting"
    /\ \E ok \in WaitForCacheSync(informer.synced, ctx = "done") :
          LET r == startAfterWait(ok)
          IN  /\ startResult' = r.result
              /\ informerStopCh' = IF r.close THEN "closed" ELSE informerStopCh
              /\ informer' = IF r.close THEN [informer EXCEPT !.running = FALSE]
                             ELSE informer
    /\ cpc' = "idle"
    /\ UNCHANGED <<ctx, starts, faulted>>
    /\ ControllerFrame

\* Controller.Stop(): a stop channel that is not nil is closed and set to
\* nil; closing a closed channel panics.
ControllerStop ==
    /\ ~faulted
    /\ cpc = "idle"
    /\ IF informerStopCh = "nil"
       THEN UNCHANGED <<informer, informerStopCh, faulted>>
       ELSE IF informerStopCh = "open"
       THEN /\ informerStopCh' = "nil"
            /\ informer' = [informer EXCEPT !.running = FALSE]
            /\ UNCHANGED faulted
       ELSE /\ faulted' = TRUE
            /\ UNCHANGED <<informer, informerStopCh>>
    /\ UNCHANGED <<ctx, cpc, startResult, starts>>
    /\ ControllerFrame

\* The controller with the collector as its event handler.
InitController == Init

NextController ==
    \/ StartRegister
    \/ StartRun
    \/ InformerSynced
    \/ CtxDone
    \/ StartReturn
    \/ ControllerStop
    \/ Delivering /\ \E o \in WatchedIds : OnAdd(o)
    \/ Delivering /\ \E old \in WatchedIds, new \in WatchedIds : OnUpdate(old, new)
    \/ Delivering /\ \E obj \in DeleteNotifications : DeleteFunc(obj)
    \/ HandlerLock
    \/ HandlerApply
    \/ HandlerReturn

SpecController == InitController /\ [][NextController]_vars

-----------------------------------------------------------------------------
(* The controller restarted.  The API server holds the objects of the       *)
(* watched resource, one per key, and they change whether or not an         *)
(* informer runs.  An informer that is run lists the objects there are,     *)
(* has then synced, calls AddFunc for each object of the list and after     *)
(* that UpdateFunc, AddFunc or DeleteFunc for each change, in order, one    *)
(* call at a time; Start makes a new informer each time.                    *)

\* The number of notifications an informer may have still to deliver when a
\* change is made.
MaxPending == 0

WatchedKeys == {KeyOf(o) : o \in WatchedIds}

\* The states of the API server: at most one object under a key.
Clusters ==
    {f \in UNION {[K -> WatchedIds] : K \in SUBSET WatchedKeys} :
        \A k \in DOMAIN f : KeyOf(f[k]) = k}

\* The notifications of the initial list, in the order of the keys.
ListOf(objects) ==
    LET keys == SortStrings(DOMAIN objects)
    IN  [i \in 1..Len(keys) |-> [kind |-> "add", old |-> 0, new |-> objects[keys[i]]]]

\* The notification of the change from objects to changed.
ChangeOf(objects, changed) ==
    LET k == CHOOSE k \in DOMAIN objects \cup DOMAIN changed :
                 k \notin DOMAIN objects \/ k \notin DOMAIN changed \/ objects[k] # changed[k]
    IN  IF k \notin DOMAIN objects THEN [kind |-> "add", old |-> 0, new |-> changed[k]]
        ELSE IF k \notin DOMAIN changed THEN [kind |-> "delete", old |-> objects[k], new |-> 0]
        ELSE [kind |-> "update", old |-> objects[k], new |-> changed[k]]

\* The API server as the controller was created: the objects there are then.
InitRestart ==
    /\ mapSeed = 1
    /\ InitCollector
    /\ NoExtract
    /\ NoBuild
    /\ NoAggregator
    /\ NewController
    /\ NoPair
    /\ cluster \in Clusters
    /\ pending = <<>>
    /\ NoDomainCollector
    /\ NoSnapshot

\* An object is created, changed or deleted in the API server; a running
\* informer that has listed is told by its watch.
ClusterChange ==
    /\ \E changed \in Clusters :
          /\ Cardinality({k \in DOMAIN cluster \cup DOMAIN changed :
                             \/ k \notin DOMAIN cluster
                             \/ k \notin DOMAIN changed
                             \/ cluster[k] # changed[k]}) = 1
          /\ cluster' = changed
          /\ IF ~informer.nil /\ informer.running /\ informer.synced
             THEN /\ Len(pending) <= MaxPending
                  /\ pending' = Append(pending, ChangeOf(cluster, changed))
             ELSE UNCHANGED pending
    /\ UNCHANGED <<collectorVars, extractVars, buildVars, aggVars, ctlVars, pairVars,
                   domainVars, snapVars>>

\* informer.Run: the list of the objects there are now is in the informer's
\* store (HasSynced is true from here on) and is to be delivered.
InformerListed ==
    /\ ~faulted
    /\ informer.running
    /\ ~informer.synced
    /\ informer' = [informer EXCEPT !.synced = TRUE]
    /\ pending' = ListOf(cluster)
    /\ UNCHANGED <<informerStopCh, ctx, cpc, startResult, starts, faulted, cluster>>
    /\ UNCHANGED <<collectorVars, extractVars, buildVars, aggVars, pairVars, domainVars,
                   snapVars>>

\* AddFunc, UpdateFunc and DeleteFunc called with pointers to Unstructured:
\* OnAdd, OnUpdate and OnDelete of the collector, which are handleAdd,
\* handleUpdate and handleDelete.
HandlerFuncs(n) ==
    /\ wop.kind = "idle"
    /\ wop' = [kind |-> n.kind, old |-> n.old, new |-> n.new, start |-> resources]
    /\ wq' = IF n.kind = "add" THEN handleAdd(n.new)
             ELSE IF n.kind = "update" THEN handleUpdate(n.old, n.new)
             ELSE handleDelete(n.old)
    /\ lastEv' = Record(lastEv, KeyOf(IF n.kind = "delete" THEN n.old ELSE n.new), n.kind,
                        n.new)
    /\ UNCHANGED <<resources, descriptors, wlocked, rpc, visited, ci, out, seen1, snap>>

\* The running informer delivers the next notification.
Deliver ==
    /\ Delivering
    /\ informer.synced
    /\ pending # <<>>
    /\ HandlerFuncs(Head(pending))
    /\ pending' = Tail(pending)
    /\ UNCHANGED <<cluster, extractVars, buildVars, aggVars, ctlVars, pairVars, domainVars,
                   snapVars>>

NextRestart ==
    \/ StartRegister
    \/ StartRun
    \/ InformerListed
    \/ CtxDone
    \/ StartReturn
    \/ ControllerStop
    \/ ClusterChange
    \/ Deliver
    \/ HandlerLock
    \/ HandlerApply
    \/ HandlerReturn
    \/ CollectRLock
    \/ \E k \in DOMAIN resources : CollectResource(k)
    \/ CollectSecondPass
    \/ CollectAggregate
    \/ CollectDone
    \/ CollectReturn

SpecRestart == InitRestart /\ [][NextRestart]_vars

-----------------------------------------------------------------------------
(* The domain collector (package domain).  The ingress informer calls       *)
(* AddFunc, UpdateFunc and DeleteFunc one at a time; each runs under        *)
(* c.mu.Lock() from its first read of c.domains to its return, so it is one *)
(* step.  Poll copies the map under the read lock, starts one goroutine for *)
(* each entry and waits for them; a goroutine checks its domain without the *)
(* lock and then stores the result under c.mu.Lock().                       *)

Ingress(namespace, name, rules, tls) ==
    [Namespace |-> namespace, Name |-> name, Rules |-> rules, TLS |-> tls]

\* The ingresses the informer may pass: i with the host x, i with the host
\* x, a rule without a host and a TLS section of the host y, and j with the
\* host x.
Ingresses ==
    {Ingress(<<"n">>, <<"i">>, <<<<"x">>>>, <<>>),
     Ingress(<<"n">>, <<"i">>, <<<<"x">>, <<>>>>, <<<<<<"y">>>>>>),
     Ingress(<<"n">>, <<"j">>, <<<<"x">>>>, <<>>)}

\* domainKey: namespace + "/" + ingress + "/" + domain.
domainKey(namespace, ingress, domain) ==
    namespace \o <<"/">> \o ingress \o <<"/">> \o domain

\* &DomainHealth{Domain, Namespace, Ingress}: an entry that was not checked.
DomainHealth(domain, namespace, ingress) ==
    [Domain |-> domain, Namespace |-> namespace, Ingress |-> ingress,
     HTTPOk |-> FALSE, Checked |-> FALSE]

\* checker.Check(ctx, domain, namespace, ingress) with the check succeeding
\* or not: a new DomainHealth.
Check(domain, namespace, ingress, ok) ==
    [Domain |-> domain, Namespace |-> namespace, Ingress |-> ingress,
     HTTPOk |-> ok, Checked |-> TRUE]

\* The hosts updateDomainList goes through: the hosts of the rules that
\* have one, then the hosts of the TLS sections.
RECURSIVE Flatten(_)
Flatten(lists) == IF lists = <<>> THEN <<>> ELSE Head(lists) \o Flatten(Tail(lists))

\* updateDomainList: an entry is made for every host that has none.
RECURSIVE updateDomainListFrom(_, _, _)
updateDomainListFrom(doms, ingress, hosts) ==
    IF hosts = <<>> THEN doms
    ELSE LET key == domainKey(ingress.Namespace, ingress.Name, Head(hosts))
         IN  updateDomainListFrom(
                 IF key \in DOMAIN doms THEN doms
                 ELSE MapSet(doms, key,
                             DomainHealth(Head(hosts), ingress.Namespace, ingress.Name)),
                 ingress, Tail(hosts))

updateDomainList(doms, ingress) ==
    updateDomainListFrom(doms, ingress,
        SelectSeq(ingress.Rules, LAMBDA host : host # <<>>) \o Flatten(ingress.TLS))

\* DeleteFunc: the keys longer than the prefix namespace/name/ that start
\* with it are deleted.
RemoveDomains(doms, ingress) ==
    LET prefix == ingress.Namespace \o <<"/">> \o ingress.Name \o <<"/">>
    IN  [key \in {key \in DOMAIN doms :
                     ~(Len(key) > Len(prefix) /\ SubSeq(key, 1, Len(prefix)) = prefix)}
           |-> doms[key]]

\* The identity of an ingress.
IngressId(ingress) == <<ingress.Namespace, ingress.Name>>

DomainFrame ==
    UNCHANGED <<collectorVars, extractVars, buildVars, aggVars, ctlVars, pairVars,
                worldVars, snapVars>>

\* AddFunc(obj): updateDomainList(ingress).
IngressAddFunc(ingress) ==
    /\ domains' = updateDomainList(domains, ingress)
    /\ gone' = gone \ {IngressId(ingress)}
    /\ UNCHANGED <<inflight, ppc>>
    /\ DomainFrame

\* UpdateFunc(oldObj, newObj), two states of one ingress:
\* updateDomainList(newObj).
IngressUpdateFunc(oldIngress, newIngress) ==
    /\ IngressId(oldIngress) = IngressId(newIngress)
    /\ oldIngress # newIngress
    /\ domains' = updateDomainList(domains, newIngress)
    /\ gone' = gone \ {IngressId(newIngress)}
    /\ UNCHANGED <<inflight, ppc>>
    /\ DomainFrame

\* DeleteFunc(obj): the domains of the ingress are removed.
IngressDeleteFunc(ingress) ==
    /\ domains' = RemoveDomains(domains, ingress)
    /\ gone' = gone \cup {IngressId(ingress)}
    /\ UNCHANGED <<inflight, ppc>>
    /\ DomainFrame

\* Poll: the entries are copied under the read lock and a goroutine is
\* started for each.
PollStart ==
    /\ ppc = "idle"
    /\ ppc' = "checking"
    /\ inflight' = {domains[key] : key \in DOMAIN domains}
    /\ UNCHANGED <<domains, gone>>
    /\ DomainFrame

\* A goroutine of Poll has checked its domain and stores the result:
\* c.domains[key] = health.
PollStore(d, ok) ==
    /\ ppc = "checking"
    /\ d \in inflight
    /\ domains' = MapSet(domains, domainKey(d.Namespace, d.Ingress, d.Domain),
                         Check(d.Domain, d.Namespace, d.Ingress, ok))
    /\ inflight' = inflight \ {d}
    /\ UNCHANGED <<ppc, gone>>
    /\ DomainFrame

\* Poll: wg.Wait() returns once every goroutine is done.
PollReturn ==
    /\ ppc = "checking"
    /\ inflight = {}
    /\ ppc' = "idle"
    /\ UNCHANGED <<domains, inflight, gone>>
    /\ DomainFrame

InitDomain == Init

NextDomain ==
    \/ \E ingress \in Ingresses : IngressAddFunc(ingress)
    \/ \E oldIngress \in Ingresses, newIngress \in Ingresses :
          IngressUpdateFunc(oldIngress, newIngress)
    \/ \E ingress \in Ingresses : IngressDeleteFunc(ingress)
    \/ PollStart
    \/ \E d \in inflight, ok \in BOOLEAN : PollStore(d, ok)
    \/ PollReturn

SpecDomain == InitDomain /\ [][NextDomain]_vars

-----------------------------------------------------------------------------
(* configurable.go: the event handlers called from two goroutines (two      *)
(* informers, or an informer and a resync), each delivering the events of   *)
(* the objects of one name in order, and meeting at c.mu.                   *)

\* The number of events each goroutine delivers.
MaxHandled == 2

Goroutines == {1, 2}

\* The name of the objects whose events goroutine g delivers.
PairNames == << <<"a">>, <<"b">> >>

PairObjs(g) == {o \in ObjIds : GetName(Obj(o)) = PairNames[g]}

PairIdle(g) == hs[g].q = <<>> /\ ~hs[g].locked

PairFrame ==
    UNCHANGED <<descriptors, wq, wlocked, wop, lastEv, rpc, visited, ci, out, seen1, snap,
                extractVars, buildVars, aggVars, ctlVars, otherVars>>

\* Goroutine g calls a handler: sections is what the handler is to run.
PairCall(g, kind, o, sections) ==
    /\ PairIdle(g)
    /\ hs[g].n < MaxHandled
    /\ hs' = [hs EXCEPT ![g] = [q |-> sections, locked |-> FALSE,
                                last |-> [kind |-> kind, obj |-> o,
                                          concurrent |-> \E h \in Goroutines \ {g} :
                                                            ~PairIdle(h)],
                                n |-> hs[g].n + 1]]
    /\ UNCHANGED resources
    /\ PairFrame

PairOnAdd(g, o) == PairCall(g, "add", o, handleAdd(o))

PairOnUpdate(g, old, new) == PairCall(g, "update", new, handleUpdate(old, new))

PairOnDelete(g, o) == PairCall(g, "delete", o, handleDelete(o))

\* c.mu.Lock() on goroutine g: granted when no goroutine holds the lock.
PairLock(g) ==
    /\ hs[g].q # <<>>
    /\ \A h \in Goroutines : ~hs[h].locked
    /\ hs' = [hs EXCEPT ![g].locked = TRUE]
    /\ UNCHANGED resources
    /\ PairFrame

\* The map mutation and the deferred c.mu.Unlock() on goroutine g.
PairApply(g) ==
    /\ hs[g].locked
    /\ resources' = Section(resources, Head(hs[g].q))
    /\ hs' = [hs EXCEPT ![g].q = Tail(hs[g].q), ![g].locked = FALSE]
    /\ PairFrame

InitPair == Init

NextPair ==
    \/ \E g \in Goroutines : \E o \in PairObjs(g) : PairOnAdd(g, o)
    \/ \E g \in Goroutines : \E old \in PairObjs(g), new \in PairObjs(g) :
          PairOnUpdate(g, old, new)
    \/ \E g \in Goroutines : \E o \in PairObjs(g) : PairOnDelete(g, o)
    \/ \E g \in Goroutines : PairLock(g)
    \/ \E g \in Goroutines : PairApply(g)

SpecPair == InitPair /\ [][NextPair]_vars

-----------------------------------------------------------------------------
(* Properties of the cache and of the event handlers *)

Returned == wop.kind # "idle" /\ wq = <<>> /\ ~wlocked

NoHandlerRunning == wop.kind = "idle"

\* The cache a handler, run alone to its end, leaves.
RECURSIVE Run(_, _)
Run(res, sections) ==
    IF sections = <<>> THEN res ELSE Run(Section(res, Head(sections)), Tail(sections))

\* C1: once the events delivered so far have been handled, the cache holds
\* exactly the keys whose most recent event was an Add or an Update, each with
\* the object that event carried; a key whose most recent event was a Delete
\* (whether or not it was cached) is absent, and a Delete for a key that was
\* not cached returns with the cache it was called on.
C1_CacheHoldsLatestEvents ==
    /\ NoHandlerRunning =>
          /\ DOMAIN resources = {k \in DOMAIN lastEv : lastEv[k].kind \in {"add", "update"}}
          /\ \A k \in DOMAIN resources : resources[k] = lastEv[k].obj
    /\ (Returned /\ wop.kind = "delete" /\ KeyOf(wop.old) \notin DOMAIN wop.start) =>
          resources = wop.start

\* An Add, an Update over a cached key and a Delete have all been handled.
C1_Witness ==
    /\ NoHandlerRunning
    /\ \E k \in DOMAIN lastEv : lastEv[k].kind = "add" /\ resources[k] = lastEv[k].obj
    /\ \E k \in DOMAIN lastEv : lastEv[k].kind = "update" /\ resources[k] = lastEv[k].obj
    /\ \E k \in DOMAIN lastEv : lastEv[k].kind = "delete" /\ k \notin DOMAIN resources

\* C2: OnUpdate(old, new), old and new having the same key, returns with the
\* cache that OnDelete(old) followed by OnAdd(new) would have left; and from the
\* call to the return of an OnUpdate for a cached key, the key is in the cache
\* whenever the lock is not held by the handler (whenever a scrape can look).
C2_UpdateIsReplaceWithoutGap ==
    wop.kind = "update" =>
        /\ Returned =>
             resources = Run(Run(wop.start, handleDelete(wop.old)), handleAdd(wop.new))
        /\ (KeyOf(wop.new) \in DOMAIN wop.start /\ ~wlocked) =>
             KeyOf(wop.new) \in DOMAIN resources

\* An OnUpdate that changed the object of a cached key has returned while a
\* scrape holds the read lock.
C2_Witness ==
    /\ wop.kind = "update"
    /\ Returned
    /\ KeyOf(wop.new) \in DOMAIN wop.start
    /\ wop.start[KeyOf(wop.new)] = wop.old
    /\ wop.old # wop.new
    /\ resources[KeyOf(wop.new)] = wop.new
    /\ ReadLockHeldAt(rpc)

-----------------------------------------------------------------------------
(* Properties of collect *)

InCollect == rpc \in {"pass1", "pass2", "done"}

Metrics == crdConfig.Metrics

MetricsOfType(types) ==
    {i \in 1..Len(Metrics) : Metrics[i].Type \in types /\ Metrics[i].Name \in DOMAIN descriptors}

\* The distinct metrics sent for one metric definition and one source object.
SentFor(name, src) == {t \in BagToSet(out) : t.desc = name /\ t.src = src}

RECURSIVE SumCopies(_)
SumCopies(ts) ==
    IF ts = {} THEN 0
    ELSE LET t == CHOOSE t \in ts : TRUE IN CopiesIn(t, out) + SumCopies(ts \ {t})

RECURSIVE SumValues(_)
SumValues(ts) ==
    IF ts = {} THEN 0
    ELSE LET t == CHOOSE t \in ts : TRUE
         IN  CopiesIn(t, out) * t.value + SumValues(ts \ {t})

\* The string at path in a cached object, "" when there is none.
ValueAt(o, path) == NestedString(Obj(o), Split(path)).val

\* C3: from the moment collect has the read lock until it has sent everything,
\* the cache is the one it locked (no handler takes effect between or inside
\* the passes); so the counts sent by the second pass for a count metric add
\* up to the number of objects the first pass visited that have a non-empty
\* value at the metric's path.
C3_CollectReadsOneSnapshot ==
    InCollect =>
        /\ resources = snap
        /\ \A k \in DOMAIN seen1 : k \in DOMAIN snap /\ seen1[k] = snap[k]
        /\ rpc = "done" =>
             /\ DOMAIN seen1 = DOMAIN snap
             /\ \A i \in MetricsOfType({t_count}) :
                   SumValues(SentFor(Metrics[i].Name, NoSrc))
                     = Cardinality({k \in DOMAIN seen1 :
                                       ValueAt(seen1[k], Metrics[i].Path) # <<>>})

\* A scrape over two or more objects has sent everything while a handler,
\* called during the scrape, waits for the lock.
C3_Witness ==
    /\ rpc = "done"
    /\ Cardinality(DOMAIN seen1) >= 2
    /\ wq # <<>>
    /\ Section(resources, Head(wq)) # resources
    /\ \E i \in MetricsOfType({t_count}) : SentFor(Metrics[i].Name, NoSrc) # {}

\* C4: for a count metric, collect sends exactly one metric per distinct
\* non-empty value found at the path among the cached objects, labelled with
\* that value alone, whose number is the count of cached objects with that
\* value; objects with an empty or unresolvable value are in none.
C4_CountPerDistinctValue ==
    rpc = "done" =>
        \A i \in MetricsOfType({t_count}) :
            LET path   == Metrics[i].Path
                values == {ValueAt(resources[k], path) : k \in DOMAIN resources} \ {<<>>}
                sent   == SentFor(Metrics[i].Name, NoSrc)
            IN  /\ sent = {[desc |-> Metrics[i].Name, labels |-> <<v>>, src |-> NoSrc,
                            value |-> Cardinality({k \in DOMAIN resources :
                                                     ValueAt(resources[k], path) = v})]
                           : v \in values}
                /\ \A t \in sent : CopiesIn(t, out) = 1

\* A scrape has counted a value shared by two objects beside an object that
\* has no value at the path.
C4_Witness ==
    /\ rpc = "done"
    /\ \E i \in MetricsOfType({t_count}) :
          /\ \E t \in SentFor(Metrics[i].Name, NoSrc) : t.value = 2
          /\ \E k \in DOMAIN resources : ValueAt(resources[k], Metrics[i].Path) = <<>>

-----------------------------------------------------------------------------
(* What the metric types are to send for one cached object, stated on the    *)
(* object's tree.                                                            *)

\* The value at path in a cached object, by successive map lookups.
Lookup(o, path) == NestedFieldNoCopy(Obj(o), Split(path))

Resolves(o, path) == path # <<>> /\ Lookup(o, path).found /\ ~Lookup(o, path).err

HasMapAt(o, path) == Resolves(o, path) /\ Lookup(o, path).val.t = "map"

EntriesAt(o, path) == Lookup(o, path).val.m

ElementsAt(o, path) ==
    IF Resolves(o, path) /\ Lookup(o, path).val.t = "slice"
    THEN Lookup(o, path).val.l ELSE <<>>

\* The string under a field of an entry, "" when the entry is not a map or
\* has no string there.
FieldOf(entry, field) ==
    IF entry.t = "map" /\ field \in DOMAIN entry.m /\ entry.m[field].t = "string"
    THEN entry.m[field].s ELSE <<>>

CommonLabelsOf(o) ==
    LET names == getSortedKeys(crdConfig.CommonLabels)
    IN  [n \in 1..Len(names) |-> ValueAt(o, crdConfig.CommonLabels[names[n]])]

\* C5: for a cached object with a map at the path of a map_state metric,
\* collect sends one metric per entry that has a non-empty state string under
\* valuePath (K metrics, not N), with value 1 and the labels (common labels,
\* entry key, state); entries without a state give nothing, and no metric of
\* value 0 is sent.
C5_MapStateOnePerEntryWithState ==
    rpc = "done" =>
        \A k \in DOMAIN resources : \A i \in MetricsOfType({t_map_state}) :
            HasMapAt(resources[k], Metrics[i].Path) =>
                LET entries   == EntriesAt(resources[k], Metrics[i].Path)
                    withState == {e \in DOMAIN entries :
                                     FieldOf(entries[e], Metrics[i].ValuePath) # <<>>}
                    sent      == SentFor(Metrics[i].Name, k)
                IN  /\ sent = {[desc |-> Metrics[i].Name, value |-> 1, src |-> k,
                                labels |-> CommonLabelsOf(resources[k])
                                   \o <<e, FieldOf(entries[e], Metrics[i].ValuePath)>>]
                               : e \in withState}
                    /\ SumCopies(sent) = Cardinality(withState)

\* A scrape has visited an object of whose entries some, but not all, have a
\* state.
C5_Witness ==
    /\ rpc = "done"
    /\ \E k \in DOMAIN resources : \E i \in MetricsOfType({t_map_state}) :
          /\ HasMapAt(resources[k], Metrics[i].Path)
          /\ \E e \in DOMAIN EntriesAt(resources[k], Metrics[i].Path) :
                FieldOf(EntriesAt(resources[k], Metrics[i].Path)[e], Metrics[i].ValuePath) = <<>>
          /\ SentFor(Metrics[i].Name, k) # {}

\* "true" in any mix of cases.
IsTrueAnyCase(status) ==
    /\ Len(status) = 4
    /\ status[1] \in {"t", "T"}
    /\ status[2] \in {"r", "R"}
    /\ status[3] \in {"u", "U"}
    /\ status[4] \in {"e", "E"}

ConditionMetric(name, k, cond) ==
    [desc |-> name, src |-> k,
     value |-> IF IsTrueAnyCase(FieldOf(cond, f_status)) THEN 1 ELSE 0,
     labels |-> CommonLabelsOf(resources[k])
                  \o <<FieldOf(cond, f_type), FieldOf(cond, f_status), FieldOf(cond, f_reason)>>]

\* C6: for every element of the conditions array of a cached object, collect
\* sends exactly one metric when the element's type is a non-empty string,
\* with value 1 when its status is "true" in any case and 0 for any other
\* status (empty and missing included), and nothing when the type is missing
\* or empty.
C6_ConditionsPolarity ==
    rpc = "done" =>
        \A k \in DOMAIN resources : \A i \in MetricsOfType({t_conditions}) :
            LET conds == ElementsAt(resources[k], Metrics[i].Path)
                typed == {j \in 1..Len(conds) : FieldOf(conds[j], f_type) # <<>>}
                sent  == SentFor(Metrics[i].Name, k)
            IN  /\ sent = {ConditionMetric(Metrics[i].Name, k, conds[j]) : j \in typed}
                /\ \A t \in sent :
                      CopiesIn(t, out) = Cardinality({j \in typed :
                          ConditionMetric(Metrics[i].Name, k, conds[j]) = t})

\* A scrape has visited an object with a condition whose status is "true" in
\* another case, one with an empty status and one without a type.
C6_Witness ==
    /\ rpc = "done"
    /\ \E k \in DOMAIN resources : \E i \in MetricsOfType({t_conditions}) :
          LET conds == ElementsAt(resources[k], Metrics[i].Path)
          IN  /\ \E j \in 1..Len(conds) :
                    /\ FieldOf(conds[j], f_type) # <<>>
                    /\ IsTrueAnyCase(FieldOf(conds[j], f_status))
                    /\ FieldOf(conds[j], f_status) # s_true
              /\ \E j \in 1..Len(conds) :
                    FieldOf(conds[j], f_type) # <<>> /\ FieldOf(conds[j], f_status) = <<>>
              /\ \E j \in 1..Len(conds) : FieldOf(conds[j], f_type) = <<>>

\* C7: for every cached object and every info or gauge metric, collect sends
\* exactly one metric, also when the fields are absent: an info metric has
\* value 1 and the label values found at the label paths ("" when a path does
\* not resolve); a gauge metric has the number at the path, and 0 when the
\* path does not resolve.
C7_InfoAndGaugeOnePerObject ==
    rpc = "done" =>
        \A k \in DOMAIN resources : \A i \in MetricsOfType({t_info, t_gauge}) :
            LET o    == resources[k]
                sent == SentFor(Metrics[i].Name, k)
                keys == getSortedKeys(Metrics[i].Labels)
            IN  /\ SumCopies(sent) = 1
                /\ \A t \in sent :
                      IF Metrics[i].Type = t_info
                      THEN /\ t.value = 1
                           /\ t.labels = CommonLabelsOf(o)
                                \o [n \in 1..Len(keys) |-> ValueAt(o, Metrics[i].Labels[keys[n]])]
                      ELSE /\ t.labels = CommonLabelsOf(o)
                           /\ ~Resolves(o, Metrics[i].Path) => t.value = 0
                           /\ (Resolves(o, Metrics[i].Path)
                               /\ Lookup(o, Metrics[i].Path).val.t = "number")
                                 => t.value = Lookup(o, Metrics[i].Path).val.n

\* A scrape has visited an object that has neither the label field of the
\* info metric nor the field of the gauge metric, beside one that has both.
C7_Witness ==
    /\ rpc = "done"
    /\ \E k \in DOMAIN resources :
          /\ \A i \in MetricsOfType({t_gauge}) : ~Resolves(resources[k], Metrics[i].Path)
          /\ \A i \in MetricsOfType({t_info}) : \A l \in DOMAIN Metrics[i].Labels :
                ~Resolves(resources[k], Metrics[i].Labels[l])
    /\ \E k \in DOMAIN resources : \E i \in MetricsOfType({t_gauge}) :
          \E t \in SentFor(Metrics[i].Name, k) : t.value = 3

\* The last label value of a metric.
LastLabel(t) == t.labels[Len(t.labels)]

\* The number a map_gauge metric sent for an entry is to carry: the number
\* under valuePath, 0 when there is nothing under valuePath.
GaugeValueOk(t, entry, valuePath) ==
    /\ (entry.t # "map" \/ valuePath \notin DOMAIN entry.m) => t.value = 0
    /\ (entry.t = "map" /\ valuePath \in DOMAIN entry.m /\ entry.m[valuePath].t = "number")
          => t.value = entry.m[valuePath].n

\* What collect sent for a map_gauge metric and an object is one metric for
\* each of the given entries of the object's map.
MapGaugeSentFor(i, k, keys) ==
    LET entries == EntriesAt(resources[k], Metrics[i].Path)
        sent    == SentFor(Metrics[i].Name, k)
    IN  /\ {t.labels : t \in sent} = {CommonLabelsOf(resources[k]) \o <<e>> : e \in keys}
        /\ SumCopies(sent) = Cardinality(keys)
        /\ \A t \in sent : GaugeValueOk(t, entries[LastLabel(t)], Metrics[i].ValuePath)

\* C8 as claimed: for a cached object with a map of N entries at the path of a
\* map_gauge metric, collect sends one metric per entry (N metrics), labelled
\* with the common labels and the entry key, carrying the number under
\* valuePath and 0 when there is none.
C8_MapGaugeOnePerEntry ==
    rpc = "done" =>
        \A k \in DOMAIN resources : \A i \in MetricsOfType({t_map_gauge}) :
            HasMapAt(resources[k], Metrics[i].Path) =>
                MapGaugeSentFor(i, k, DOMAIN EntriesAt(resources[k], Metrics[i].Path))

\* C8 as amended: one metric per entry that is itself a map; an entry that is
\* not a map (a string, a number, null) gives no metric.
C8_MapGaugeOnePerMapEntry ==
    rpc = "done" =>
        \A k \in DOMAIN resources : \A i \in MetricsOfType({t_map_gauge}) :
            HasMapAt(resources[k], Metrics[i].Path) =>
                LET entries == EntriesAt(resources[k], Metrics[i].Path)
                IN  MapGaugeSentFor(i, k, {e \in DOMAIN entries : entries[e].t = "map"})

\* A scrape has visited an object whose map has an entry that is a map without
\* the value, an entry with a number, and an entry that is not a map.
C8_Witness ==
    /\ rpc = "done"
    /\ \E k \in DOMAIN resources : \E i \in MetricsOfType({t_map_gauge}) :
          /\ HasMapAt(resources[k], Metrics[i].Path)
          /\ LET entries == EntriesAt(resources[k], Metrics[i].Path)
             IN  /\ \E e \in DOMAIN entries : entries[e].t # "map"
                 /\ \E e \in DOMAIN entries :
                       entries[e].t = "map" /\ Metrics[i].ValuePath \notin DOMAIN entries[e].m
                 /\ \E t \in SentFor(Metrics[i].Name, k) : t.value # 0

\* Everything collect sent that was made from the object cached under k.
SentFrom(k) ==
    LET ts == {t \in BagToSet(out) : t.src = k} IN [t \in ts |-> CopiesIn(t, out)]

\* The object has a field of the wrong shape or lacks one on a configured path.
Malformed(o) ==
    \E i \in 1..Len(Metrics) :
        Metrics[i].Path # <<>> /\ ~Resolves(o, Metrics[i].Path)

\* C9: collect never panics, whatever the shape of the cached objects, and
\* what it sends for a cached object is what it sends for that object alone:
\* a malformed object in the cache changes the metrics of no other object.
C9_MalformedObjectAffectsOnlyItself ==
    /\ rpc # "panicked"
    /\ rpc = "done" =>
          \A k \in DOMAIN resources :
              SentFrom(k) = collectResource(Obj(resources[k]), k).ms

\* A scrape has run to its end over an object whose status is not a map and
\* an object for which metrics of every per-resource type were sent.
C9_Witness ==
    /\ rpc = "done"
    /\ \E k \in DOMAIN resources :
          /\ Malformed(resources[k])
          /\ Lookup(resources[k], Dot(f_status, f_phase)).err
    /\ \E k \in DOMAIN resources :
          /\ ~Malformed(resources[k])
          /\ \A i \in MetricsOfType({t_info, t_gauge, t_map_state, t_map_gauge, t_conditions}) :
                SentFor(Metrics[i].Name, k) # {}

-----------------------------------------------------------------------------
(* Properties of the extractors *)

DotsOf(path) == {i \in 1..Len(path) : path[i] = "."}

\* The position of the n-th dot of the path; 0 before the first, one past the
\* end after the last.
DotAt(path, n) ==
    IF n = 0 THEN 0
    ELSE IF n > Cardinality(DotsOf(path)) THEN Len(path) + 1
    ELSE CHOOSE d \in DotsOf(path) : Cardinality({e \in DotsOf(path) : e < d}) = n - 1

\* The segments of a dot-separated path.
SegmentsOf(path) ==
    [n \in 1..(Cardinality(DotsOf(path)) + 1) |->
        SubSeq(path, DotAt(path, n - 1) + 1, DotAt(path, n) - 1)]

Absent == [t |-> "absent"]

\* The value reached from the tree by the first n segments, Absent when a
\* segment is missing or is looked up in something that is not a map.
RECURSIVE Reach(_, _, _)
Reach(tree, segs, n) ==
    IF n = 0 THEN tree
    ELSE LET at == Reach(tree, segs, n - 1)
         IN  IF at.t = "map" /\ segs[n] \in DOMAIN at.m THEN at.m[segs[n]] ELSE Absent

Found(o, path) ==
    IF path = <<>> THEN Absent
    ELSE Reach(Obj(o), SegmentsOf(path), Len(SegmentsOf(path)))

\* C10: each extractor returns (it neither fails nor panics); it returns the
\* value found by successive map lookups along the dot-separated path when that
\* value has the requested type, and the zero value of its type ("", 0, nil map,
\* nil slice) when the path is empty, a segment is absent or an intermediate
\* segment is not a map.
C10_ExtractorsFailSoft ==
    xout.done =>
        LET v == Found(xin.obj, xin.path)
        IN  /\ xout.string.t = "string" /\ xout.float.t = "number"
            /\ xout.map.t \in {"map", "nil"} /\ xout.slice.t \in {"slice", "nil"}
            /\ v.t = "string" => xout.string.s = v.s
            /\ v.t = "number" => xout.float.n = v.n
            /\ v.t = "map" => xout.map = v
            /\ v.t = "slice" => xout.slice = v
            /\ v.t = "absent" =>
                  /\ xout.string.s = <<>>
                  /\ xout.float.n = 0
                  /\ xout.map.t = "nil"
                  /\ xout.slice.t = "nil"

\* The extractors have been applied to a path of three segments that
\* resolves, and to a path that runs through a string.
C10_Witness ==
    /\ xout.done
    /\ \/ /\ Len(SegmentsOf(xin.path)) = 3
          /\ Found(xin.obj, xin.path).t = "map"
          /\ xout.map.t = "map"
       \/ /\ Len(SegmentsOf(xin.path)) = 4
          /\ Found(xin.obj, xin.path).t = "absent"
          /\ Reach(Obj(xin.obj), SegmentsOf(xin.path), 3).t = "string"

-----------------------------------------------------------------------------
(* Properties of the construction and of the descriptors *)

HasUnknownType(config) ==
    \E i \in 1..Len(config.Metrics) : config.Metrics[i].Type \notin KnownTypes

\* C11: a construction from a CRDConfig that holds a metric definition of an
\* unrecognized type reports a configuration error to its caller (the metric
\* is not silently left out).
C11_UnknownTypeIsConfigurationError ==
    \A b \in 1..Len(bout) :
        (Validate(bin.config) /\ HasUnknownType(bin.config)) => bout[b].result.err

\* C12: building the engine for a CRDConfig with an empty name or an empty
\* resource fails with an error, and no descriptor (no collector) is built.
C12_InvalidDefinitionRefused ==
    \A b \in 1..Len(bout) :
        (bout[b].call = "newMultiCollector"
         /\ (bin.config.Name = <<>> \/ bin.config.Resource = <<>>))
            => (bout[b].result.err /\ bout[b].result.descriptors = <<>>)

\* The engine was asked to build the collector of a definition without a name
\* or without a resource, and refused.
C12_Witness ==
    \E b \in 1..Len(bout) :
        /\ bout[b].call = "newMultiCollector"
        /\ bout[b].result.err
        /\ bin.config.Name = <<>> \/ bin.config.Resource = <<>>
        /\ bin.config.Metrics # <<>>

\* C14: all constructions from one CRDConfig and one prefix give the same
\* descriptors: the same metric names and the same label names in the same
\* order, whatever order the maps of the configuration were ranged over.
C14_ConstructionIsDeterministic ==
    \A a, b \in 1..Len(bout) :
        (~bout[a].result.err /\ ~bout[b].result.err) =>
            /\ DOMAIN bout[a].result.descriptors = DOMAIN bout[b].result.descriptors
            /\ \A n \in DOMAIN bout[a].result.descriptors :
                  /\ bout[a].result.descriptors[n].fqName = bout[b].result.descriptors[n].fqName
                  /\ bout[a].result.descriptors[n].labelNames
                        = bout[b].result.descriptors[n].labelNames

\* Two constructions ran under different map orders and built a descriptor
\* with two common labels and two labels of an info metric.
C14_Witness ==
    \E a, b \in 1..Len(bout) :
        /\ bout[a].seed # bout[b].seed
        /\ ~bout[a].result.err /\ ~bout[b].result.err
        /\ \E n \in DOMAIN bout[a].result.descriptors :
              Len(bout[a].result.descriptors[n].labelNames) = 4

NameAlphabet ==
    {Lower[i] : i \in 1..Len(Lower)} \cup {Digits[i] : i \in 1..Len(Digits)} \cup {"_"}

\* prefix_crdname_metricname, crdname_metricname when the prefix is empty.
JoinedName(prefix, crdName, metricName) ==
    IF prefix = <<>> THEN crdName \o <<"_">> \o metricName
    ELSE prefix \o <<"_">> \o crdName \o <<"_">> \o metricName

\* C16: the final name of every descriptor is prefix_crdname_metricname
\* (crdname_metricname for an empty prefix) in lower case, made of characters
\* of [a-z0-9_] only.
C16_FinalNameIsSanitized ==
    \A b \in 1..Len(bout) : \A n \in DOMAIN bout[b].result.descriptors :
        LET fq     == bout[b].result.descriptors[n].fqName
            joined == JoinedName(bin.prefix, bin.config.Name, n)
        IN  /\ \A i \in 1..Len(fq) : fq[i] \in NameAlphabet
            /\ Len(fq) = Len(joined)
            /\ \A i \in 1..Len(fq) :
                  ToLowerRune(joined[i]) \in NameAlphabet => fq[i] = ToLowerRune(joined[i])

\* The definition a metric sent by collect was made for.
ConfigOf(t) == Metrics[CHOOSE i \in 1..Len(Metrics) : Metrics[i].Name = t.desc]

StrictlySorted(names) ==
    \A i, j \in 1..Len(names) : i < j => StrLess(names[i], names[j])

\* The label values of t after the common ones are those of its type, under
\* the label names the descriptor has at the same positions.
TypeLabelsOk(t, names, nc) ==
    LET cfg   == ConfigOf(t)
        o     == seen1[t.src]
        own   == SubSeq(names, nc + 1, Len(names))
        value == SubSeq(t.labels, nc + 1, Len(t.labels))
    IN  IF cfg.Type = t_info
        THEN /\ StrictlySorted(own)
             /\ {own[i] : i \in 1..Len(own)} = DOMAIN cfg.Labels
             /\ \A i \in 1..Len(own) : value[i] = ValueAt(o, cfg.Labels[own[i]])
        ELSE IF cfg.Type = t_gauge THEN own = <<>>
        ELSE IF cfg.Type = t_map_state
        THEN /\ own = <<cfg.KeyLabel, f_state>>
             /\ HasMapAt(o, cfg.Path)
             /\ value[1] \in DOMAIN EntriesAt(o, cfg.Path)
             /\ value[2] = FieldOf(EntriesAt(o, cfg.Path)[value[1]], cfg.ValuePath)
        ELSE IF cfg.Type = t_map_gauge
        THEN /\ own = <<cfg.KeyLabel>>
             /\ HasMapAt(o, cfg.Path)
             /\ value[1] \in DOMAIN EntriesAt(o, cfg.Path)
        ELSE /\ own = <<f_type, f_status, f_reason>>
             /\ \E j \in 1..Len(ElementsAt(o, cfg.Path)) :
                   LET cond == ElementsAt(o, cfg.Path)[j]
                   IN  value = <<FieldOf(cond, f_type), FieldOf(cond, f_status),
                                 FieldOf(cond, f_reason)>>

\* C13: every metric sent by collect has as many label values as its
\* descriptor has label names, and the value at each position is the one
\* extracted for the label name at that position: first the common labels,
\* sorted by name, then the labels of the metric type in their fixed sequence
\* (a count metric has its value label alone).
C13_LabelValuesMatchLabelNames ==
    InCollect =>
        \A t \in BagToSet(out) :
            LET names  == descriptors[t.desc].labelNames
                cfg    == ConfigOf(t)
                common == crdConfig.CommonLabels
                nc     == Cardinality(DOMAIN common)
            IN  /\ Len(t.labels) = Len(names)
                /\ IF cfg.Type = t_count
                   THEN /\ names = <<IF cfg.ValueLabel = <<>> THEN f_value ELSE cfg.ValueLabel>>
                        /\ \E k \in DOMAIN snap : t.labels[1] = ValueAt(snap[k], cfg.Path)
                   ELSE /\ Len(names) >= nc
                        /\ StrictlySorted(SubSeq(names, 1, nc))
                        /\ {names[i] : i \in 1..nc} = DOMAIN common
                        /\ \A i \in 1..nc :
                              t.labels[i] = ValueAt(seen1[t.src], common[names[i]])
                        /\ TypeLabelsOk(t, names, nc)

\* A scrape has sent metrics of all six types, one of them for an object
\* whose name and namespace differ.
C13_Witness ==
    /\ rpc = "done"
    /\ \A type \in KnownTypes : \E t \in BagToSet(out) : ConfigOf(t).Type = type
    /\ \E t \in BagToSet(out) :
          /\ Len(t.labels) = 4
          /\ t.labels[1] # t.labels[2]

\* The descriptors NewConfigurableCollector builds for crdConfig.
BuiltDescriptors ==
    {NewDesc(crdConfig, metricPrefix, Metrics[i]) :
        i \in {j \in 1..Len(Metrics) : Metrics[j].Type \in KnownTypes}}

\* C15: GetMetricDescriptors returns the descriptors built at construction
\* in every state: before any resource is seen, and after and during any
\* events and scrapes.
C15_DescriptorSetIsStatic ==
    /\ GetMetricDescriptors = BuiltDescriptors
    /\ GetMetricDescriptors # {}

\* A scrape has ended on a cache that holds an object, after a delete event.
C15_Witness ==
    /\ rpc = "done"
    /\ out # EmptyBag
    /\ resources # <<>>
    /\ \E k \in DOMAIN lastEv : lastEv[k].kind = "delete"

-----------------------------------------------------------------------------
(* Properties of the pod aggregator *)

\* C18: in every state of the pod aggregator, the Count of every bucket is
\* the size of its member set.
C18_CountIsMemberSetSize ==
    \A k \in DOMAIN podAggregated :
        podAggregated[k].Count = Cardinality(podAggregated[k].Pods)

\* The step is a call of RemovePod with a pod.
IsRemovePod ==
    /\ calls' # calls
    /\ lastCall'.op = "RemovePod"
    /\ ~lastCall'.arg.nil

\* What RemovePod(pod) is to do to the buckets: the pod's name leaves the
\* member set of the bucket of its namespace and phase, the count becomes the
\* size of the set, an emptied bucket is deleted, and every other bucket (all
\* of them when the pod's bucket does not exist) stays as it is.
RemovePodEffect ==
    LET pod  == lastCall'.arg
        key  == pod.Namespace \o <<"/">> \o pod.Phase
    IN  /\ \A k \in (DOMAIN podAggregated \cup DOMAIN podAggregated') \ {key} :
              /\ k \in DOMAIN podAggregated /\ k \in DOMAIN podAggregated'
              /\ podAggregated'[k] = podAggregated[k]
        /\ key \notin DOMAIN podAggregated => key \notin DOMAIN podAggregated'
        /\ key \in DOMAIN podAggregated =>
              LET rest == podAggregated[key].Pods \ {pod.Name}
              IN  IF rest = {} THEN key \notin DOMAIN podAggregated'
                  ELSE /\ key \in DOMAIN podAggregated'
                       /\ podAggregated'[key].Pods = rest
                       /\ podAggregated'[key].Count = Cardinality(rest)

\* C19: every RemovePod step has the effect above, and no state has a bucket
\* with an empty member set.
C19_RemovePodKeepsNoEmptyBucket ==
    /\ [](\A k \in DOMAIN podAggregated : podAggregated[k].Pods # {})
    /\ [][IsRemovePod => RemovePodEffect]_vars

\* After two AddPod calls, RemovePod was called for a pod whose bucket holds
\* another pod: the bucket is kept, without the pod, with count 1.
C19_Witness ==
    /\ lastCall.op = "RemovePod"
    /\ ~lastCall.arg.nil
    /\ calls = 3
    /\ LET key == podAggregationKey(lastCall.arg)
       IN  /\ key \in DOMAIN podAggregated
           /\ lastCall.arg.Name \notin podAggregated[key].Pods
           /\ podAggregated[key].Pods # {}
           /\ podAggregated[key].Count = 1

\* The step is a tick of the cleanup ticker.
IsCleanupTick == nextTick' # nextTick

\* C20: a bucket last touched at t is absent at t + 2.5 * windowSize (once
\* the tick due at that time, if any, has been served), and a cleanup run
\* deletes no bucket touched 1.5 * windowSize ago or later.
C20_PresentAtOneAndAHalfAbsentAtTwoAndAHalf ==
    /\ [](nextTick # now =>
            \A k \in DOMAIN podAggregated :
                now - podAggregated[k].LastSeen < 5 * HalfWindow)
    /\ [][IsCleanupTick =>
            \A k \in DOMAIN podAggregated \ DOMAIN podAggregated' :
                now - podAggregated[k].LastSeen > 3 * HalfWindow]_vars

-----------------------------------------------------------------------------
(* Properties of the event aggregator *)

\* The step is a call of AddEvent with an event.
IsAddEvent ==
    /\ calls' # calls
    /\ lastCall'.op = "AddEvent"
    /\ ~lastCall'.arg.nil

\* What AddEvent is to do to the bucket of the event's key.
AddEventEffect ==
    LET event   == lastCall'.arg
        key     == event.Namespace \o <<"/">> \o event.Reason \o <<"/">> \o event.Kind
        objects == IF event.Name = <<>> THEN {} ELSE {event.Name}
    IN  /\ key \in DOMAIN evAggregated'
        /\ evAggregated'[key].LastSeen = now
        /\ IF key \in DOMAIN evAggregated
           THEN /\ evAggregated'[key].Count = evAggregated[key].Count + event.Count
                /\ evAggregated'[key].UniqueObjects
                      = evAggregated[key].UniqueObjects \cup objects
                /\ evAggregated'[key].FirstSeen = evAggregated[key].FirstSeen
           ELSE /\ evAggregated'[key].Count = event.Count
                /\ evAggregated'[key].UniqueObjects = objects
                /\ evAggregated'[key].FirstSeen = event.FirstTimestamp

\* C17: every AddEvent call updates the bucket of its key in place when there
\* is one (count plus the event's count, members plus the involved object,
\* first-seen kept, last-seen now), whatever the number of buckets, and
\* creates a bucket with the event's contribution alone when there is none.
C17_AddEventUpdatesInPlace == [][IsAddEvent => AddEventEffect]_vars

-----------------------------------------------------------------------------
(* Properties of cleanup, capacity and abnormal tracking *)

\* The keys of the buckets of agg that are not older than 2 x windowSize at
\* time t.
NotOlderThanTwoWindows(agg, t) ==
    {k \in DOMAIN agg : ~(t - agg[k].LastSeen > 2 * windowSize)}

\* What a cleanup run at time now is to do to a bucket map.
CleanupEffect(agg, aggAfter) ==
    /\ DOMAIN aggAfter = NotOlderThanTwoWindows(agg, now)
    /\ \A k \in DOMAIN aggAfter : aggAfter[k] = agg[k]

\* C21: a cleanup run of either aggregator deletes exactly the buckets whose
\* last-seen is more than 2 x windowSize before the time of the run and
\* leaves every other bucket as it is.
C21_CleanupDeletesExactlyTheOld ==
    [][IsCleanupTick => /\ CleanupEffect(podAggregated, podAggregated')
                        /\ CleanupEffect(evAggregated, evAggregated')]_vars

KeyA == eventAggregationKey(EventA)
KeyB == eventAggregationKey(EventB)
KeyC == eventAggregationKey(EventC)
KeyD == eventAggregationKey(EventD)

\* The buckets are those of A, B and C, last touched in the order x, y, z
\* at three different times.
TouchedInOrder(agg, x, y, z) ==
    /\ DOMAIN agg = {KeyA, KeyB, KeyC}
    /\ agg[x].LastSeen < agg[y].LastSeen
    /\ agg[y].LastSeen < agg[z].LastSeen

\* C22: with maxEvents = 3 and the buckets touched in the order A, B, C,
\* the next event of A updates the bucket of A (A is not evicted: its count
\* goes up and no bucket is lost); and with the buckets last touched in the
\* order B, C, A, an event of D evicts B: the buckets are then A, C and D,
\* those of A and C as they were.
C22_TouchedBucketIsNotEvicted ==
    [][IsAddEvent /\ maxEvents = 3 =>
          /\ (lastCall'.arg = EventA /\ TouchedInOrder(evAggregated, KeyA, KeyB, KeyC)) =>
                /\ DOMAIN evAggregated' = {KeyA, KeyB, KeyC}
                /\ evAggregated'[KeyA].Count = evAggregated[KeyA].Count + EventA.Count
          /\ (lastCall'.arg = EventD /\ TouchedInOrder(evAggregated, KeyB, KeyC, KeyA)) =>
                /\ DOMAIN evAggregated' = {KeyA, KeyC, KeyD}
                /\ evAggregated'[KeyA] = evAggregated[KeyA]
                /\ evAggregated'[KeyC] = evAggregated[KeyC]]_vars

\* C23: the number of buckets of an event aggregator created with
\* maxEvents >= 1 never exceeds maxEvents.
C23_BucketCountIsBounded ==
    maxEvents >= 1 => Cardinality(DOMAIN evAggregated) <= maxEvents

\* An aggregator of two entries is full after its third call, an AddEvent
\* whose bucket was touched now and after the other bucket.
C23_Witness ==
    /\ maxEvents = 2
    /\ calls = 3
    /\ Cardinality(DOMAIN evAggregated) = 2
    /\ lastCall.op = "AddEvent"
    /\ ~lastCall.arg.nil
    /\ LET key == eventAggregationKey(lastCall.arg)
       IN  /\ key \in DOMAIN evAggregated
           /\ evAggregated[key].LastSeen = now
           /\ \A k \in DOMAIN evAggregated \ {key} :
                 /\ evAggregated[k].LastSeen < now
                 /\ evAggregated[k].LastSeen > 0

\* The step is a call of AddPod with a pod.
IsAddPod ==
    /\ calls' # calls
    /\ lastCall'.op = "AddPod"
    /\ ~lastCall'.arg.nil

\* The key of a pod in the abnormal-tracking map.
AbnormalKey(pod) == pod.Namespace \o <<"/">> \o pod.Name

\* The pods handed to the aggregator.
RealPods == {pod \in Pods : ~pod.nil}

\* GetAbnormalDuration for pod, called in this state.
DurationOf(pod) == GetAbnormalDuration(abnormalPods, pod.Namespace, pod.Name, now)

\* C24: GetAbnormalDuration of a pod is now - t0, t0 the time of the first
\* AddPod that passed the pod in an abnormal state since it was last removed
\* (or ever): that call starts the tracking at the time of the call, a later
\* AddPod of the pod in an abnormal state leaves t0 alone, the duration grows
\* with the clock; it is zero as long as no AddPod passed the pod in an
\* abnormal state, and zero after RemovePod.
C24_AbnormalDurationSinceFirstSeen ==
    /\ [](\A pod \in RealPods :
            IF AbnormalKey(pod) \in DOMAIN abnormalPods
            THEN DurationOf(pod) = now - abnormalPods[AbnormalKey(pod)] /\ DurationOf(pod) >= 0
            ELSE DurationOf(pod) = 0)
    /\ [][/\ IsAddPod /\ isPodAbnormal(lastCall'.arg) =>
                LET key == AbnormalKey(lastCall'.arg)
                IN  /\ key \in DOMAIN abnormalPods'
                    /\ abnormalPods'[key] = IF key \in DOMAIN abnormalPods
                                            THEN abnormalPods[key] ELSE now
          /\ IsAddPod /\ ~isPodAbnormal(lastCall'.arg) =>
                (AbnormalKey(lastCall'.arg) \notin DOMAIN abnormalPods
                    => AbnormalKey(lastCall'.arg) \notin DOMAIN abnormalPods')
          /\ IsRemovePod =>
                /\ AbnormalKey(lastCall'.arg) \notin DOMAIN abnormalPods'
                /\ GetAbnormalDuration(abnormalPods', lastCall'.arg.Namespace,
                                       lastCall'.arg.Name, now') = 0
          /\ \A key \in DOMAIN abnormalPods \cup DOMAIN abnormalPods' :
                ((IsAddPod \/ IsRemovePod) /\ key = AbnormalKey(lastCall'.arg))
                \/ (/\ key \in DOMAIN abnormalPods
                    /\ key \in DOMAIN abnormalPods'
                    /\ abnormalPods'[key] = abnormalPods[key])]_vars

\* A failed pod tracked since an earlier time was passed to AddPod again now
\* (its bucket was touched now): the duration is still counted from the
\* first call.
C24_Witness ==
    /\ lastCall.op = "AddPod"
    /\ ~lastCall.arg.nil
    /\ lastCall.arg.Phase = PodFailed
    /\ podAggregationKey(lastCall.arg) \in DOMAIN podAggregated
    /\ podAggregated[podAggregationKey(lastCall.arg)].LastSeen = now
    /\ AbnormalKey(lastCall.arg) \in DOMAIN abnormalPods
    /\ abnormalPods[AbnormalKey(lastCall.arg)] < now
    /\ DurationOf(lastCall.arg) = now - abnormalPods[AbnormalKey(lastCall.arg)]

\* C25: an AddPod that passes a pod in a state that is not abnormal ends the
\* tracking of the pod: GetAbnormalDuration is zero for it from then on.
C25_ResolvedPodIsNoLongerTracked ==
    [][IsAddPod /\ ~isPodAbnormal(lastCall'.arg) =>
          /\ AbnormalKey(lastCall'.arg) \notin DOMAIN abnormalPods'
          /\ GetAbnormalDuration(abnormalPods', lastCall'.arg.Namespace,
                                 lastCall'.arg.Name, now') = 0]_vars

-----------------------------------------------------------------------------
(* Properties of Stop *)

\* The step is the call of Stop.
IsStop == stopCh = "open" /\ stopCh' = "closed"

\* The step is a call of GetAggregated.
IsGetAggregated == calls' # calls /\ lastCall'.op = "GetAggregated"

\* A call made once the stop channel is closed does what it does on a
\* running aggregator.
CallCompletesNormally ==
    /\ IsAddPod =>
          /\ podAggregated' = AddPodBuckets(podAggregated, lastCall'.arg, now)
          /\ abnormalPods' = AddPodAbnormal(abnormalPods, lastCall'.arg, now)
    /\ IsRemovePod =>
          /\ podAggregated' = RemovePodBuckets(podAggregated, lastCall'.arg)
          /\ AbnormalKey(lastCall'.arg) \notin DOMAIN abnormalPods'
    /\ IsAddEvent =>
          /\ eventAggregationKey(lastCall'.arg) \in DOMAIN evAggregated'
          /\ evAggregated'[eventAggregationKey(lastCall'.arg)].LastSeen = now
          /\ Cardinality(DOMAIN evAggregated') <= maxEvents
    /\ IsGetAggregated =>
          /\ lastCall'.arg = (IF maxEvents = 0 THEN podAggregated ELSE evAggregated)
          /\ UNCHANGED <<podVars, eventVars>>

\* C26: once Stop has closed the stop channel, cleanupLoop returns, and it
\* has returned before the clock moves on: the only cleanup that may still
\* run is that of a tick already due when Stop was called, and none runs at
\* a later tick; Stop itself changes nothing else, and the calls made after
\* it have their usual effect.
C26_StopEndsOnlyTheCleanupLoop ==
    /\ (stopCh = "closed") ~> (loop = "returned")
    /\ [][/\ IsStop => UNCHANGED <<now, nextTick, calls, loop, podVars, eventVars>>
          /\ (stopCh = "closed" /\ now' # now) => loop = "returned"
          /\ (stopCh = "closed" /\ IsCleanupTick) =>
                (lastCall.op = "Stop" /\ lastCall.arg = now)
          /\ loop = "returned" =>
                /\ loop' = "returned"
                /\ ~IsCleanupTick
                /\ calls' = calls => UNCHANGED <<podVars, eventVars>>
          /\ stopCh = "closed" => CallCompletesNormally]_vars

\* The loop has returned, the tick that was next has passed unserved, and
\* AddPod was called after that: the bucket of the pod was touched now.
C26_Witness ==
    /\ stopCh = "closed"
    /\ loop = "returned"
    /\ nextTick < now
    /\ lastCall.op = "AddPod"
    /\ podAggregationKey(lastCall.arg) \in DOMAIN podAggregated
    /\ podAggregated[podAggregationKey(lastCall.arg)].LastSeen = now
    /\ lastCall.arg.Name \in podAggregated[podAggregationKey(lastCall.arg)].Pods

-----------------------------------------------------------------------------
(* Properties of the controller *)

\* The step is the return of Start.
IsStartReturn == cpc = "waiting" /\ cpc' = "idle"

\* The step runs an informer.
IsInformerRun == ~informer.running /\ informer'.running

\* C27: when Start's wait ends with the informer not synced (the context is
\* done), Start returns an error, the stop channel of the informer it ran is
\* closed and the informer stops; nothing runs an informer again but a new
\* call of Start, and while the last Start has failed no informer runs.
C27_FailedSyncIsAStartupError ==
    /\ [](startResult = "error" => ~informer.running)
    /\ [][/\ (IsStartReturn /\ ~informer.synced) =>
                /\ ctx = "done"
                /\ startResult' = "error"
                /\ informerStopCh' = "closed"
                /\ informer' = [informer EXCEPT !.running = FALSE]
                /\ starts' = starts
          /\ IsInformerRun => (cpc = "registered" /\ startResult = "pending")
          /\ starts' # starts => (cpc = "idle" /\ cpc' = "registered")]_vars

\* Start has returned an error: the context is done, the informer never
\* synced and is stopped, its stop channel closed.
C27_Witness ==
    /\ cpc = "idle"
    /\ startResult = "error"
    /\ ctx = "done"
    /\ ~informer.nil
    /\ ~informer.synced
    /\ ~informer.running
    /\ informerStopCh = "closed"

\* C28: HasSynced is false as long as no Start has created an informer;
\* Start returns success only when the informer reports synced, and HasSynced
\* is then true; an informer is run only with the handlers registered.
C28_ReadyOnlyAfterInitialSync ==
    /\ [](starts = 0 => (informer.nil /\ ~HasSynced))
    /\ [](informer.running => informer.handlers)
    /\ [][/\ (IsStartReturn /\ startResult' = "ok") =>
                /\ informer.synced
                /\ informer'.synced
                /\ informer'.running
                /\ informer'.handlers
                /\ informerStopCh' = "open"
          /\ IsInformerRun =>
                /\ informer.handlers
                /\ informer' = [informer EXCEPT !.running = TRUE]]_vars

\* Start has returned success: the informer runs, synced, with the handlers.
C28_Witness ==
    /\ cpc = "idle"
    /\ startResult = "ok"
    /\ HasSynced
    /\ informer.running
    /\ informer.handlers
    /\ informerStopCh = "open"

\* The step is a Stop that stops the informer.
IsControllerStop == informerStopCh = "open" /\ informerStopCh' = "nil"

\* C29: a Stop leaves the cache as it is; once the informer is stopped no
\* handler is called, and with no handler running the cache does not change:
\* what was cached is still cached.
C29_StopKeepsTheCache ==
    [][/\ IsControllerStop => (resources' = resources /\ ~informer'.running)
       /\ (~informer.running /\ ~informer'.running /\ wop.kind = "idle") =>
             (wop'.kind = "idle" /\ resources' = resources)
       /\ (~informer.running /\ ~informer'.running) =>
             (wop' = wop \/ wop'.kind = "idle")]_vars

\* The controller was started, the cache filled, and the controller stopped:
\* the two objects are still cached.
C29_Witness ==
    /\ startResult = "ok"
    /\ cpc = "idle"
    /\ informerStopCh = "nil"
    /\ ~informer.running
    /\ wop.kind = "idle"
    /\ Cardinality(DOMAIN resources) = 2

-----------------------------------------------------------------------------
(* Properties of handlers running concurrently *)

\* The resource key of an object: its namespace and its name.
ResourceKey(o) ==
    NestedString(Obj(o), <<f_metadata, f_namespace>>).val \o <<"/">>
        \o NestedString(Obj(o), <<f_metadata, f_name>>).val

\* The keys of the objects goroutine g delivers events of.
PairKeys(g) == {ResourceKey(o) : o \in PairObjs(g)}

\* The cache holds what the last event goroutine g has delivered says, for
\* the keys of g.
LastEventApplied(g) ==
    IF hs[g].last.kind \in {"add", "update"}
    THEN /\ ResourceKey(hs[g].last.obj) \in DOMAIN resources
         /\ resources[ResourceKey(hs[g].last.obj)] = hs[g].last.obj
         /\ PairKeys(g) \cap DOMAIN resources = {ResourceKey(hs[g].last.obj)}
    ELSE PairKeys(g) \cap DOMAIN resources = {}

\* The critical sections an event of object o may run.
SectionsOf(o) == {[op |-> "store", obj |-> o], [op |-> "delete", obj |-> o]}

\* C30: events of different keys delivered on two goroutines do not
\* interfere.  Whenever a goroutine is between two handlers the cache holds
\* for its keys what its last event says (no effect is lost, and the final
\* cache is that of any sequential application); a handler changes no entry
\* of another key; and in every state, applying two events of different
\* keys in one order or the other gives the same cache.
C30_EventsOfDifferentKeysAreIndependent ==
    /\ [](\A g \in Goroutines : PairIdle(g) => LastEventApplied(g))
    /\ [](DOMAIN resources \subseteq UNION {PairKeys(g) : g \in Goroutines})
    /\ [](\A o1 \in PairObjs(1), o2 \in PairObjs(2) :
            \A e1 \in SectionsOf(o1), e2 \in SectionsOf(o2) :
                Section(Section(resources, e1), e2) = Section(Section(resources, e2), e1))
    /\ [][\A g \in Goroutines :
            (hs[g].locked /\ ~hs'[g].locked) =>
                \A k \in (DOMAIN resources \cup DOMAIN resources')
                            \ {ResourceKey(hs[g].last.obj)} :
                    /\ k \in DOMAIN resources
                    /\ k \in DOMAIN resources'
                    /\ resources'[k] = resources[k]]_vars

\* Both goroutines have delivered their events, the last two handlers
\* overlapping: an update of one key and a delete of the other; the cache
\* holds the updated object and not the deleted one.
C30_Witness ==
    /\ \A g \in Goroutines : PairIdle(g) /\ hs[g].n = MaxHandled
    /\ hs[1].last.kind = "update"
    /\ hs[2].last.kind = "delete"
    /\ hs[1].last.concurrent \/ hs[2].last.concurrent
    /\ DOMAIN resources = {ResourceKey(hs[1].last.obj)}
    /\ resources[ResourceKey(hs[1].last.obj)] = hs[1].last.obj

-----------------------------------------------------------------------------
(* Properties of eviction *)

\* The buckets an AddEvent step evicts: those that are gone after the call,
\* and the bucket of the event's key when the call did not add the event's
\* count to it but started it again.
Evicted ==
    LET event == lastCall'.arg
        key   == eventAggregationKey(event)
    IN  {k \in DOMAIN evAggregated :
            \/ k \notin DOMAIN evAggregated'
            \/ /\ k = key
               /\ evAggregated'[k].Count # evAggregated[k].Count + event.Count}

\* C31: an AddEvent call evicts at most one bucket; a bucket it evicts has
\* the least last-seen of the buckets present before the call, and the
\* number of buckets before the call had reached maxEvents; a call made with
\* maxEvents buckets evicts one, and every other bucket is kept as it was.
C31_EvictionIsStrictLRU ==
    [][IsAddEvent =>
          /\ Cardinality(Evicted) <= 1
          /\ \A k \in Evicted :
                /\ Cardinality(DOMAIN evAggregated) >= maxEvents
                /\ \A j \in DOMAIN evAggregated :
                      evAggregated[k].LastSeen <= evAggregated[j].LastSeen
          /\ Cardinality(DOMAIN evAggregated) = maxEvents => Cardinality(Evicted) = 1
          /\ \A k \in DOMAIN evAggregated \ Evicted :
                k # eventAggregationKey(lastCall'.arg) => evAggregated'[k] = evAggregated[k]]_vars

\* Four calls before any cleanup could delete a bucket left three buckets of
\* one event each: the fourth call found the aggregator full and evicted.
C31_Witness ==
    /\ maxEvents = 3
    /\ calls = 4
    /\ now <= Hour
    /\ lastCall.op = "AddEvent"
    /\ Cardinality(DOMAIN evAggregated) = 3
    /\ \A k \in DOMAIN evAggregated : evAggregated[k].Count = 1
    /\ evAggregated[eventAggregationKey(lastCall.arg)].LastSeen = now

-----------------------------------------------------------------------------
(* Properties of the delete notification *)

\* The step is a call of DeleteFunc by the informer.
IsDeleteFunc == wop.kind = "idle" /\ wop'.kind \in {"delete", "dropped"}

\* The Unstructured a delete notification is about: obj itself, or the
\* object a tombstone holds.
Decodable(obj) ==
    \/ obj.type = "Unstructured"
    \/ obj.type = "DeletedFinalStateUnknown" /\ obj.Obj.type = "Unstructured"

InnerObject(obj) == IF obj.type = "Unstructured" THEN obj.obj ELSE obj.Obj.obj

\* C32: DeleteFunc called with an Unstructured, or with a tombstone holding
\* one, calls OnDelete with that object, and once the handler has run the
\* key of the object is not in the cache and every other key is as it was
\* when the handler started; called with anything else it calls no handler
\* and the cache stays as it is.
C32_DeleteAlwaysReachesTheCache ==
    /\ [][IsDeleteFunc =>
            IF Decodable(wop'.arg)
            THEN /\ wop'.kind = "delete"
                 /\ wop'.old = InnerObject(wop'.arg)
                 /\ wq' = handleDelete(InnerObject(wop'.arg))
            ELSE /\ wop'.kind = "dropped"
                 /\ wq' = <<>>
                 /\ UNCHANGED <<resources, lastEv>>]_vars
    /\ [][wop.kind = "dropped" => UNCHANGED resources]_vars
    /\ []((wop.kind = "delete" /\ wq = <<>> /\ ~wlocked) =>
            /\ KeyOf(wop.old) \notin DOMAIN resources
            /\ resources = Delete(wop.start, InnerObject(wop.arg)))

\* A tombstone was delivered for an object in the cache and its handler has
\* run: the key is gone.
C32_Witness ==
    /\ wop.kind = "delete"
    /\ wop.arg.type = "DeletedFinalStateUnknown"
    /\ wq = <<>>
    /\ ~wlocked
    /\ KeyOf(wop.old) \in DOMAIN wop.start
    /\ KeyOf(wop.old) \notin DOMAIN resources

-----------------------------------------------------------------------------
(* Properties of the pod aggregator: cleanup and tracking, RemovePod *)

\* The times GetAbnormalDuration may be called at.
Times == 0..(MaxTime + 1)

\* C33: a cleanup run of the pod aggregator leaves the abnormal-tracking map
\* as it is, so that GetAbnormalDuration of every pod, called at any time,
\* returns after the run what it returned before it, also for a pod whose
\* bucket the run deleted.
C33_CleanupLeavesTrackingAlone ==
    [][IsCleanupTick =>
          /\ abnormalPods' = abnormalPods
          /\ \A pod \in RealPods : \A t \in Times :
                GetAbnormalDuration(abnormalPods', pod.Namespace, pod.Name, t)
                   = GetAbnormalDuration(abnormalPods, pod.Namespace, pod.Name, t)
          /\ UNCHANGED <<now, calls, lastCall, eventVars>>]_vars

\* The failed pod p is tracked and the bucket of its phase, which only p
\* was ever in, is gone: a cleanup run deleted it (RemovePod would have ended
\* the tracking), and the duration still counts from the first AddPod.
C33_Witness ==
    LET p == Pod(<<"a">>, <<"p">>, PodFailed, <<>>)
    IN  /\ AbnormalKey(p) \in DOMAIN abnormalPods
        /\ podAggregationKey(p) \notin DOMAIN podAggregated
        /\ nextTick > now
        /\ DurationOf(p) = now - abnormalPods[AbnormalKey(p)]
        /\ DurationOf(p) > 2 * windowSize

\* The buckets of agg the pod is a member of.
BucketsHolding(agg, pod) ==
    {k \in DOMAIN agg : agg[k].Namespace = pod.Namespace /\ pod.Name \in agg[k].Pods}

\* C34: after RemovePod(p) the name of p is in the member set of no bucket
\* of its namespace, whatever AddPod calls were made for p before, also with
\* another phase than the one p is removed with.
C34_RemovedPodIsInNoBucket ==
    [][IsRemovePod => BucketsHolding(podAggregated', lastCall'.arg) = {}]_vars

-----------------------------------------------------------------------------
(* Properties of Start and Stop of the controller *)

\* C35: over every sequence of Start and Stop calls of a controller no
\* stop channel is closed twice: Stop never panics.
C35_StopChannelClosedAtMostOnce == ~faulted

\* The controller was started a second time, Start returned nil, and the
\* informer has delivered everything it has been told: no notification is
\* waiting and no handler runs.
RestartedAndQuiet ==
    /\ starts >= 2
    /\ ~faulted
    /\ cpc = "idle"
    /\ startResult = "ok"
    /\ informer.running
    /\ informer.synced
    /\ pending = <<>>
    /\ wop.kind = "idle"

\* C36: once a controller that was stopped has been started again and its
\* informer has delivered its list and the changes since, the cache holds
\* the objects of the API server and no other key, also no key cached before
\* the stop whose object was deleted during it, and a collect that has sent
\* everything has sent nothing made from such a key.
C36_RestartRebuildsTheCache ==
    RestartedAndQuiet =>
        /\ resources = cluster
        /\ rpc = "done" => \A k \in WatchedKeys \ DOMAIN cluster : SentFrom(k) = <<>>

-----------------------------------------------------------------------------
(* Properties of the value GetAggregated returns *)

\* C37: what the caller of GetAggregated reads in the map it was returned
\* stays what it was when the call returned: the keys, and the count, the
\* member set and the timestamps of every bucket, whatever calls and cleanup
\* runs come later, also while one of them is making its writes.
C37_GetAggregatedReturnsASnapshot ==
    held # NoResult => ReadResult(held, heap) = held.vals

-----------------------------------------------------------------------------
(* Properties of the descriptors *)

\* The definitions of a recognized type of a configuration.
Recognized(config) == {i \in 1..Len(config.Metrics) : config.Metrics[i].Type \in KnownTypes}

\* GetMetricDescriptors() of a collector that was built.
DescriptorsOf(built) == {built.descriptors[n] : n \in DOMAIN built.descriptors}

\* The descriptor collect makes the tuples of a definition with:
\* c.descriptors[metricCfg.Name].
DescriptorUsedFor(built, cfg) == built.descriptors[cfg.Name]

\* C38: a collector that was built has one descriptor for each metric
\* definition of a recognized type, and collect makes the tuples of each
\* such definition with the descriptor that was built for it, also when two
\* definitions have the same name.
C38_OneDescriptorPerDefinition ==
    \A b \in 1..Len(bout) :
        ~bout[b].result.err =>
            /\ Cardinality(DescriptorsOf(bout[b].result))
                  = Cardinality(Recognized(bin.config))
            /\ \A i \in Recognized(bin.config) :
                  DescriptorUsedFor(bout[b].result, bin.config.Metrics[i])
                     = NewDesc(bin.config, bin.prefix, bin.config.Metrics[i])

-----------------------------------------------------------------------------
(* Properties of the domain collector *)

\* The keys of the entries of an ingress in a domains map.
EntriesOf(doms, id) ==
    {key \in DOMAIN doms : <<doms[key].Namespace, doms[key].Ingress>> = id}

\* C39: an ingress whose delete handler has returned, and for which no Add
\* or Update came since, has no entry in the domains map, whatever Poll is
\* doing.
C39_DeletedIngressHasNoDomains ==
    \A id \in gone : EntriesOf(domains, id) = {}

====
